---- MODULE Spec2Model ----
(***************************************************************************)
(* The interactive terminal loop of sshegg (src/src/ui): AppState, the     *)
(* key handlers of each input mode, the filter, and the JSON file store    *)
(* the handlers call.                                                      *)
(*                                                                         *)
(* Conventions.  A String is a sequence of one-character strings.  An      *)
(* Option<T> is a sequence of length 0 (None) or 1 (Some).  Indices kept   *)
(* by the program (filtered_indices, selected) are 0-based as in the code, *)
(* so sessions[i] of the code is app.sessions[i + 1] here.                 *)
(***************************************************************************)
EXTENDS Integers, Sequences, FiniteSets, TLC

VARIABLES
    app,      \* the AppState of run_tui
    store,    \* the contents of the store file (a sequence of Session)
    result,   \* what run_app has returned so far
    calls,    \* store calls and child processes made by the last key event
    pc,       \* where run_tui (and its caller) stands
    term,     \* the terminal: raw mode and alternate screen
    now       \* the clock read by Instant::now(), in ticks

vars == <<app, store, result, calls, pc, term, now>>

(***************************************************************************)
(* Bounds of the model                                                     *)
(***************************************************************************)
MaxQuery == 2       \* longest search query typed
MaxField == 1       \* longest text typed into a form field
MaxConfirm == 3     \* longest delete confirmation typed
MaxSessions == 3    \* largest catalog the add form may grow
MaxTime == 2400     \* how long the clock is followed, in milliseconds

None == <<>>
Some(x) == <<x>>
IsSome(o) == Len(o) = 1
Unwrap(o) == o[1]

(***************************************************************************)
(* Characters and strings                                                  *)
(***************************************************************************)
Lower(ch) ==
    CASE ch = "A" -> "a"
      [] ch = "B" -> "b"
      [] ch = "G" -> "g"
      [] ch = "N" -> "n"
      [] ch = "O" -> "o"
      [] OTHER -> ch

\* a lowercasing that changes nothing
to_lowercase_unchanged(s) == s

to_lowercase(s) == [i \in 1..Len(s) |-> Lower(s[i])]

IsWhitespace(ch) == ch = " "

RECURSIVE trim_start(_)
trim_start(s) ==
    IF s # <<>> /\ IsWhitespace(Head(s)) THEN trim_start(Tail(s)) ELSE s

RECURSIVE trim_end(_)
trim_end(s) ==
    IF s # <<>> /\ IsWhitespace(s[Len(s)])
    THEN trim_end(SubSeq(s, 1, Len(s) - 1))
    ELSE s

\* no trimming at all
trim_nothing(s) == s

trim(s) == trim_end(trim_start(s))

contains(hay, needle) ==
    \E i \in 0..(Len(hay) - Len(needle)) :
        SubSeq(hay, i + 1, i + Len(needle)) = needle

pop(s) == IF s = <<>> THEN s ELSE SubSeq(s, 1, Len(s) - 1)

CharRank(ch) ==
    CASE ch = " " -> 0
      [] ch = "G" -> 1
      [] ch = "a" -> 2
      [] ch = "b" -> 3
      [] ch = "c" -> 4
      [] ch = "h" -> 5
      [] ch = "u" -> 6
      [] OTHER -> 7

RECURSIVE StrLess(_, _)
StrLess(s, t) ==
    IF t = <<>> THEN FALSE
    ELSE IF s = <<>> THEN TRUE
    ELSE IF CharRank(Head(s)) # CharRank(Head(t))
         THEN CharRank(Head(s)) < CharRank(Head(t))
         ELSE StrLess(Tail(s), Tail(t))

(***************************************************************************)
(* filter.rs                                                               *)
(***************************************************************************)
session_matches(session, needle) ==
    \/ contains(to_lowercase(session.name), needle)
    \/ contains(to_lowercase(session.host), needle)
    \/ contains(to_lowercase(session.user), needle)
    \/ /\ IsSome(session.identity_file)
       /\ contains(to_lowercase(Unwrap(session.identity_file)), needle)
    \/ \E t \in 1..Len(session.tags) :
           contains(to_lowercase(session.tags[t]), needle)

Range0(n) == [i \in 1..n |-> i - 1]

\* the matching indices collected last to first
filter_sessions_reversed(sessions, filter) ==
    LET needle == to_lowercase(filter)
        keep(i) == trim(filter) = <<>> \/ session_matches(sessions[i + 1], needle)
        kept == SelectSeq(Range0(Len(sessions)), keep)
    IN [i \in 1..Len(kept) |-> kept[Len(kept) + 1 - i]]

filter_sessions(sessions, filter) ==
    IF trim(filter) = <<>>
    THEN Range0(Len(sessions))
    ELSE LET needle == to_lowercase(filter)
             keep(i) == session_matches(sessions[i + 1], needle)
         IN SelectSeq(Range0(Len(sessions)), keep)

(***************************************************************************)
(* state.rs: AppState                                                      *)
(***************************************************************************)
\* refresh_filter without the re-clamp of the cursor
refresh_filter_no_clamp(a) ==
    [a EXCEPT !.filtered_indices = filter_sessions(a.sessions, a.filter)]

refresh_filter(a) ==
    LET fi == filter_sessions(a.sessions, a.filter)
    IN [a EXCEPT !.filtered_indices = fi,
                 !.selected = IF a.selected >= Len(fi) THEN 0 ELSE a.selected]

AppState_new(sessions) ==
    refresh_filter(
        [sessions             |-> sessions,
         filter               |-> <<>>,
         filtered_indices     |-> <<>>,
         selected             |-> 0,
         mode                 |-> "Normal",
         pending              |-> None,
         status               |-> <<>>,
         delete_target        |-> None,
         delete_input         |-> <<>>,
         add_form             |-> None,
         scp_form             |-> None,
         monitor_enabled      |-> FALSE,
         monitor_last_update  |-> None,
         monitor_entries      |-> <<>>])

set_mode(a, mode) == [a EXCEPT !.mode = mode]
set_pending(a, pending) == [a EXCEPT !.pending = pending]
set_status(a, status) == [a EXCEPT !.status = status]
clear_status(a) == [a EXCEPT !.status = <<>>]

move_next(a) ==
    IF a.filtered_indices = <<>> THEN a
    ELSE [a EXCEPT !.selected = (a.selected + 1) % Len(a.filtered_indices)]

move_prev(a) ==
    IF a.filtered_indices = <<>> THEN a
    ELSE IF a.selected = 0
         THEN [a EXCEPT !.selected = Len(a.filtered_indices) - 1]
         ELSE [a EXCEPT !.selected = a.selected - 1]

RECURSIVE page_down(_, _)
page_down(a, step) ==
    IF step = 0 THEN a ELSE page_down(move_next(a), step - 1)

RECURSIVE page_up(_, _)
page_up(a, step) ==
    IF step = 0 THEN a ELSE page_up(move_prev(a), step - 1)

select_first(a) ==
    IF a.filtered_indices # <<>> THEN [a EXCEPT !.selected = 0] ELSE a

select_last(a) ==
    IF a.filtered_indices # <<>>
    THEN [a EXCEPT !.selected = Len(a.filtered_indices) - 1]
    ELSE a

on_char(a, ch) == refresh_filter([a EXCEPT !.filter = Append(a.filter, ch)])

\* a backspace that edits the query and leaves the view as it was
backspace_no_refresh(a) == [a EXCEPT !.filter = pop(a.filter)]

backspace(a) == refresh_filter([a EXCEPT !.filter = pop(a.filter)])

\* the cursor read as an index of the catalog
selected_session_by_cursor(a) ==
    IF a.selected < Len(a.filtered_indices)
    THEN Some(a.sessions[a.selected + 1])
    ELSE None

\* filtered_indices.get(selected).map(|index| &sessions[*index])
selected_session(a) ==
    IF a.selected < Len(a.filtered_indices)
    THEN Some(a.sessions[a.filtered_indices[a.selected + 1] + 1])
    ELSE None

selected_index(a) ==
    IF a.filtered_indices = <<>> THEN None ELSE Some(a.selected)

\* a start_delete that reads the cursor as an index of the catalog
start_delete_by_cursor(a) ==
    IF IsSome(selected_session(a))
    THEN [app |-> [a EXCEPT !.delete_target = Some(a.sessions[a.selected + 1].name),
                            !.delete_input = <<>>,
                            !.mode = "ConfirmDelete"],
          ok  |-> TRUE]
    ELSE [app |-> a, ok |-> FALSE]

\* start_delete returns a bool next to the new state
start_delete(a) ==
    IF IsSome(selected_session(a))
    THEN [app |-> [a EXCEPT !.delete_target = Some(Unwrap(selected_session(a)).name),
                            !.delete_input = <<>>,
                            !.mode = "ConfirmDelete"],
          ok  |-> TRUE]
    ELSE [app |-> a, ok |-> FALSE]

\* a cancel that leaves the target behind
cancel_delete_keeps_target(a) == [a EXCEPT !.delete_input = <<>>, !.mode = "Normal"]

cancel_delete(a) ==
    [a EXCEPT !.delete_target = None, !.delete_input = <<>>, !.mode = "Normal"]

push_delete_input(a, ch) == [a EXCEPT !.delete_input = Append(a.delete_input, ch)]

pop_delete_input(a) == [a EXCEPT !.delete_input = pop(a.delete_input)]

\* a prefix comparison in place of the exact one
confirm_delete_matches_prefix(a) ==
    IF IsSome(a.delete_target)
    THEN a.delete_input # <<>>
         /\ Len(a.delete_input) <= Len(Unwrap(a.delete_target))
         /\ SubSeq(Unwrap(a.delete_target), 1, Len(a.delete_input)) = a.delete_input
    ELSE FALSE

confirm_delete_matches(a) ==
    IF IsSome(a.delete_target)
    THEN Unwrap(a.delete_target) = a.delete_input
    ELSE FALSE

\* remove_by_name without the refresh of the filtered view
remove_by_name_stale(a, name) ==
    [a EXCEPT !.sessions = SelectSeq(a.sessions, LAMBDA s : s.name # name)]

remove_by_name(a, name) ==
    LET keep(s) == s.name # name
        kept == SelectSeq(a.sessions, keep)
        removed == Len(kept) # Len(a.sessions)
    IN IF removed THEN refresh_filter([a EXCEPT !.sessions = kept]) ELSE a

\* a push that leaves the filtered view as it was
add_session_no_refresh(a, session) ==
    [a EXCEPT !.sessions = Append(a.sessions, session)]

\* add_session that refreshes the view and forgets the session
add_session_forgotten(a, session) == refresh_filter(a)

add_session(a, session) ==
    refresh_filter([a EXCEPT !.sessions = Append(a.sessions, session)])

set_monitor_enabled(a, enabled) == [a EXCEPT !.monitor_enabled = enabled]

toggle_monitor(a) == [a EXCEPT !.monitor_enabled = ~a.monitor_enabled]

\* a monitor that is always due
monitor_should_refresh_always(a, instant, interval) == TRUE

monitor_should_refresh(a, instant, interval) ==
    IF IsSome(a.monitor_last_update)
    THEN instant - Unwrap(a.monitor_last_update) >= interval
    ELSE TRUE

update_monitor(a, entries, instant) ==
    [a EXCEPT !.monitor_entries = entries, !.monitor_last_update = Some(instant)]

(***************************************************************************)
(* state.rs: AddSessionForm and ScpForm                                    *)
(***************************************************************************)
AddField_next(f) ==
    CASE f = "Name" -> "Host"
      [] f = "Host" -> "User"
      [] f = "User" -> "Port"
      [] f = "Port" -> "Identity"
      [] f = "Identity" -> "Tags"
      [] f = "Tags" -> "Name"

\* prev that stops at the first field instead of wrapping
AddField_prev_clamped(f) ==
    CASE f = "Name" -> "Name"
      [] f = "Host" -> "Name"
      [] f = "User" -> "Host"
      [] f = "Port" -> "User"
      [] f = "Identity" -> "Port"
      [] f = "Tags" -> "Identity"

AddField_prev(f) ==
    CASE f = "Name" -> "Tags"
      [] f = "Host" -> "Name"
      [] f = "User" -> "Host"
      [] f = "Port" -> "User"
      [] f = "Identity" -> "Port"
      [] f = "Tags" -> "Identity"

AddSessionForm_new(default_user) ==
    [name                 |-> <<>>,
     host                 |-> <<>>,
     user                 |-> IF IsSome(default_user) THEN Unwrap(default_user) ELSE <<>>,
     port                 |-> <<"2", "2">>,
     identity_file        |-> <<>>,
     tags                 |-> <<>>,
     field                |-> "Name",
     identity_exists      |-> None,
     identity_suggestions |-> <<>>]

\* the record field behind AddSessionForm::active_value_mut
ActiveKey(form) ==
    CASE form.field = "Name" -> "name"
      [] form.field = "Host" -> "host"
      [] form.field = "User" -> "user"
      [] form.field = "Port" -> "port"
      [] form.field = "Identity" -> "identity_file"
      [] form.field = "Tags" -> "tags"

active_value(form) == form[ActiveKey(form)]

set_active_value(form, v) == [form EXCEPT ![ActiveKey(form)] = v]

add_next_field(form) == [form EXCEPT !.field = AddField_next(form.field)]
add_prev_field(form) == [form EXCEPT !.field = AddField_prev(form.field)]

start_add_session(a, default_user) ==
    [a EXCEPT !.add_form = Some(AddSessionForm_new(default_user)),
              !.mode = "AddSession"]

\* cancel_add_session that leaves the form behind
cancel_add_session_keeps_form(a) == [a EXCEPT !.mode = "Normal"]

cancel_add_session(a) == [a EXCEPT !.add_form = None, !.mode = "Normal"]

ScpField_next(f) ==
    CASE f = "Direction" -> "Local"
      [] f = "Local" -> "Remote"
      [] f = "Remote" -> "Recursive"
      [] f = "Recursive" -> "Direction"

ScpField_prev(f) ==
    CASE f = "Direction" -> "Recursive"
      [] f = "Local" -> "Direction"
      [] f = "Remote" -> "Local"
      [] f = "Recursive" -> "Remote"

ScpDirection_toggle(d) == IF d = "To" THEN "From" ELSE "To"

ScpForm_new(session) ==
    [session     |-> session,
     local_path  |-> <<>>,
     remote_path |-> <<>>,
     direction   |-> "To",
     recursive   |-> FALSE,
     field       |-> "Local"]

scp_next_field(form) == [form EXCEPT !.field = ScpField_next(form.field)]
scp_prev_field(form) == [form EXCEPT !.field = ScpField_prev(form.field)]
toggle_direction(form) == [form EXCEPT !.direction = ScpDirection_toggle(form.direction)]
toggle_recursive(form) == [form EXCEPT !.recursive = ~form.recursive]

\* ScpForm::active_editable_mut: the editable buffer under the cursor, if any
scp_editable(form) == form.field \in {"Local", "Remote"}

scp_edit(form, v) ==
    IF form.field = "Local" THEN [form EXCEPT !.local_path = v]
    ELSE [form EXCEPT !.remote_path = v]

scp_active(form) ==
    IF form.field = "Local" THEN form.local_path ELSE form.remote_path

start_scp(a, session) ==
    [a EXCEPT !.scp_form = Some(ScpForm_new(session)), !.mode = "Scp"]

\* cancel_scp that leaves the form behind
cancel_scp_keeps_form(a) == [a EXCEPT !.mode = "Normal"]

cancel_scp(a) == [a EXCEPT !.scp_form = None, !.mode = "Normal"]

(***************************************************************************)
(* store/mod.rs: JsonFileStore over the file contents                      *)
(***************************************************************************)
HasName(sessions, name) == \E i \in 1..Len(sessions) : sessions[i].name = name

\* an add that does not look for the name first
store_add_unchecked(st, session) ==
    [store |-> Append(st, session), ok |-> TRUE]

\* an add that looks for the name in the last session only
store_add_checks_last(st, session) ==
    IF st # <<>> /\ st[Len(st)].name = session.name
    THEN [store |-> st, ok |-> FALSE]
    ELSE [store |-> Append(st, session), ok |-> TRUE]

\* an add that saves the list before it reports the duplicate
store_add_saves_then_fails(st, session) ==
    [store |-> Append(st, session), ok |-> ~HasName(st, session.name)]

store_add(st, session) ==
    IF HasName(st, session.name)
    THEN [store |-> st, ok |-> FALSE]
    ELSE [store |-> Append(st, session), ok |-> TRUE]

store_remove(st, name) ==
    LET keep(s) == s.name # name
        kept == SelectSeq(st, keep)
    IN IF Len(kept) = Len(st)
       THEN [store |-> st, ok |-> FALSE]
       ELSE [store |-> kept, ok |-> TRUE]

\* the first session with this name gets the timestamp
FirstNamed(st, name) == CHOOSE i \in 1..Len(st) :
    /\ st[i].name = name
    /\ \A j \in 1..(i - 1) : st[j].name # name

\* a touch that reports success and writes nothing
store_touch_last_connected_noop(st, name, timestamp) ==
    [store |-> st, ok |-> HasName(st, name)]

store_touch_last_connected(st, name, timestamp) ==
    IF ~HasName(st, name)
    THEN [store |-> st, ok |-> FALSE]
    ELSE [store |-> [st EXCEPT ![FirstNamed(st, name)].last_connected_at = Some(timestamp)],
          ok |-> TRUE]

\* sort_by(|a, b| a.name.cmp(&b.name)) is a stable sort
RECURSIVE InsertByName(_, _)
InsertByName(sorted, s) ==
    IF sorted = <<>> THEN <<s>>
    ELSE IF StrLess(s.name, Head(sorted).name)
         THEN <<s>> \o sorted
         ELSE <<Head(sorted)>> \o InsertByName(Tail(sorted), s)

RECURSIVE SortByName(_)
SortByName(sessions) ==
    IF sessions = <<>> THEN <<>>
    ELSE InsertByName(SortByName(SubSeq(sessions, 1, Len(sessions) - 1)),
                      sessions[Len(sessions)])

store_list(st) == SortByName(st)

(***************************************************************************)
(* ui/mod.rs: conversions used by the submit functions                     *)
(***************************************************************************)
Digits == <<"0", "1", "2", "3", "4", "5", "6", "7", "8", "9">>
IsDigit(ch) == \E d \in 1..10 : Digits[d] = ch
DigitVal(ch) == (CHOOSE d \in 1..10 : Digits[d] = ch) - 1

U16Max == 65535

RECURSIVE DigitsValue(_, _)
DigitsValue(s, acc) ==
    IF s = <<>> THEN acc
    ELSE IF acc * 10 + DigitVal(Head(s)) > U16Max
         THEN U16Max + 1
         ELSE DigitsValue(Tail(s), acc * 10 + DigitVal(Head(s)))

RECURSIVE DigitsValueWrapping(_, _)
DigitsValueWrapping(s, acc) ==
    IF s = <<>> THEN acc
    ELSE DigitsValueWrapping(Tail(s), (acc * 10 + DigitVal(Head(s))) % (U16Max + 1))

\* a parse that wraps around at 16 bits instead of rejecting the overflow
parse_u16_wrapping(s) ==
    LET body == IF s # <<>> /\ Head(s) = "+" THEN Tail(s) ELSE s
    IN IF body = <<>> \/ \E i \in 1..Len(body) : ~IsDigit(body[i])
       THEN None
       ELSE Some(DigitsValueWrapping(body, 0))

\* str::parse::<u16>: an optional '+', then one or more digits, value <= 65535
parse_u16(s) ==
    LET body == IF s # <<>> /\ Head(s) = "+" THEN Tail(s) ELSE s
    IN IF body = <<>> \/ \E i \in 1..Len(body) : ~IsDigit(body[i])
       THEN None
       ELSE IF DigitsValue(body, 0) > U16Max THEN None
            ELSE Some(DigitsValue(body, 0))

RECURSIVE to_string(_)
to_string(n) ==
    IF n < 10 THEN <<Digits[n + 1]>>
    ELSE Append(to_string(n \div 10), Digits[(n % 10) + 1])

\* input.split(',')
RECURSIVE split_comma(_, _)
split_comma(s, cur) ==
    IF s = <<>> THEN <<cur>>
    ELSE IF Head(s) = "," THEN <<cur>> \o split_comma(Tail(s), <<>>)
         ELSE split_comma(Tail(s), Append(cur, Head(s)))

split_tags(input) ==
    LET pieces == split_comma(input, <<>>)
        trimmed == [i \in 1..Len(pieces) |-> trim(pieces[i])]
        nonempty(t) == t # <<>>
    IN SelectSeq(trimmed, nonempty)

\* The file system answers of update_identity_state come from the environment.
update_identity_state(form, env) ==
    IF trim(form.identity_file) = <<>>
    THEN [form EXCEPT !.identity_exists = None, !.identity_suggestions = <<>>]
    ELSE [form EXCEPT !.identity_exists = Some(env.exists),
                      !.identity_suggestions = env.suggestions]

(***************************************************************************)
(* ui/mod.rs: what a handler hands back                                    *)
(***************************************************************************)
RetNone == [kind |-> "continue", selection |-> None]      \* Ok(None)
RetExit(selection) == [kind |-> "exit", selection |-> selection]  \* Ok(Some(_))
RetErr == [kind |-> "error", selection |-> None]          \* Err(_)

Out(a, st, ret, cs) == [app |-> a, store |-> st, ret |-> ret, calls |-> cs]

Call(op, name, ok) == [op |-> op, name |-> name, ok |-> ok, argv |-> <<>>]
Spawn(argv, ok) == [op |-> "scp", name |-> <<>>, ok |-> ok, argv |-> argv]

PAGE_STEP == 5

Ps(host) == [op |-> "ps", name |-> host, ok |-> TRUE, argv |-> <<>>]

PollTimeout == 200          \* Duration::from_millis(200)
MonitorInterval == 1000     \* Duration::from_secs(1)

(***************************************************************************)
(* ui/mod.rs: fetch_ssh_pids, refresh_monitor and the monitor panel of     *)
(* draw_ui; `calls` tells whether ps was run.                              *)
(***************************************************************************)
\* ps is the output of `ps -eo pid=,command=` as its lines, each a pid and a
\* command; a ps that fails or cannot be run gives no lines
fetch_ssh_pids(host, ps) ==
    LET wanted(line) ==
            /\ line.command # <<>>
            /\ contains(line.command, host)
            /\ \/ contains(line.command, <<"s", "s", "h">>)
               \/ contains(line.command, <<"s", "c", "p">>)
               \/ contains(line.command, <<"s", "f", "t", "p">>)
        kept == SelectSeq(ps, wanted)
    IN [i \in 1..Len(kept) |-> kept[i].pid]

refresh_monitor(a, session, instant, ps) ==
    IF ~monitor_should_refresh(a, instant, MonitorInterval)
    THEN [app |-> a, calls |-> <<>>]
    ELSE [app |-> update_monitor(a, fetch_ssh_pids(session.host, ps), instant),
          calls |-> <<Ps(session.host)>>]

\* a panel that polls whether or not it is shown
draw_ui_hidden_panel_polls(a, instant, ps) ==
    IF IsSome(selected_session(a))
    THEN refresh_monitor(a, Unwrap(selected_session(a)), instant, ps)
    ELSE [app |-> a, calls |-> <<>>]

draw_ui(a, instant, ps) ==
    IF a.monitor_enabled /\ IsSome(selected_session(a))
    THEN refresh_monitor(a, Unwrap(selected_session(a)), instant, ps)
    ELSE [app |-> a, calls |-> <<>>]

MsgConfirmDelete == <<"Type session name to confirm deletion">>
MsgNoDelete == <<"No session selected to delete">>
MsgAdd == <<"Add session: Enter/Tab/Up/Down move fields, Esc cancel">>
MsgScp == <<"SCP: Enter/Tab move fields, Esc cancel">>
MsgNoScp == <<"No session selected for SCP">>
MsgSearch == <<"Search mode: type to filter, Enter/Esc to exit">>
MsgMismatch == <<"Delete confirmation does not match session name">>
MsgDeleted(target) == <<"Deleted session: ", target>>
MsgRequired == <<"Name, host, and user are required">>
MsgPort == <<"Port must be a valid number">>
MsgAddFailed(name) == <<"Failed to add session: already exists", name>>
MsgAdded(name) == <<"Added session: ", name>>
MsgPaths == <<"Local and remote paths are required">>
MsgScpStatus == <<"scp exited with status">>
MsgScpDone(name) == <<"SCP complete: ", name>>

(***************************************************************************)
(* ui/mod.rs: key events.  KeyCode::Char(c) has code c; the other codes    *)
(* are named.                                                              *)
(***************************************************************************)
Chars == {"a", "b", "c", "d", "g", "G", "j", "k", "m", "n", "N", "o", "O",
          "q", "r", "s", "t", "u", "/", " ", "2"}

SpecialCodes == {"Enter", "Esc", "Backspace", "Tab", "BackTab", "Up", "Down",
                 "Left", "Right", "Home", "End", "Delete"}

IsCharKey(key) == key.code \in Chars

Key(code) == [code |-> code, ctrl |-> FALSE, alt |-> FALSE]
Ctrl(code) == [code |-> code, ctrl |-> TRUE, alt |-> FALSE]
Alt(code) == [code |-> code, ctrl |-> FALSE, alt |-> TRUE]

\* if !CONTROL && !ALT guard of the text arms
Plain(key) == ~key.ctrl /\ ~key.alt

(***************************************************************************)
(* ui/mod.rs: handle_normal_key                                            *)
(***************************************************************************)
chord_d(a) ==
    IF a.pending = Some("d")
    THEN LET sd == start_delete(a)
         IN set_pending(
                set_status(sd.app, IF sd.ok THEN MsgConfirmDelete ELSE MsgNoDelete),
                None)
    ELSE set_pending(a, Some("d"))

\* the 'g' chord firing without clearing its marker
chord_g_keeps_marker(a) ==
    IF a.pending = Some("g")
    THEN select_first(a)
    ELSE set_pending(a, Some("g"))

chord_g(a) ==
    IF a.pending = Some("g")
    THEN set_pending(select_first(a), None)
    ELSE set_pending(a, Some("g"))

\* 's' entering Scp mode whether or not a session is selected
key_s_unguarded(a) ==
    IF IsSome(selected_session(a))
    THEN set_status(start_scp(a, Unwrap(selected_session(a))), MsgScp)
    ELSE set_status(set_mode(a, "Scp"), MsgScp)

key_s(a) ==
    IF IsSome(selected_session(a))
    THEN set_status(start_scp(a, Unwrap(selected_session(a))), MsgScp)
    ELSE set_status(a, MsgNoScp)

\* entering Search without clearing the query
key_slash_keeps_query(a) ==
    set_status(set_mode(refresh_filter(a), "Search"), MsgSearch)

key_slash(a) ==
    set_status(set_mode(refresh_filter([a EXCEPT !.filter = <<>>]), "Search"),
               MsgSearch)

\* the arms of `match key.code` after 'q' and Enter, in source order
normal_match(a, key, env) ==
    LET c == key.code
        yes(x) == [app |-> x, handled |-> TRUE]
    IN IF c = "d" /\ key.ctrl THEN yes(page_down(a, PAGE_STEP))
       ELSE IF c = "u" /\ key.ctrl THEN yes(page_up(a, PAGE_STEP))
       ELSE IF c = "d" THEN yes(chord_d(a))
       ELSE IF c \in {"a", "o", "O"}
            THEN yes(set_status(start_add_session(a, env.user), MsgAdd))
       ELSE IF c = "s" THEN yes(key_s(a))
       ELSE IF c = "m" THEN yes(toggle_monitor(a))
       ELSE IF c \in {"Up", "k"} THEN yes(move_prev(a))
       ELSE IF c \in {"Down", "j"} THEN yes(move_next(a))
       ELSE IF c = "Home" THEN yes(select_first(a))
       ELSE IF c \in {"End", "G"} THEN yes(select_last(a))
       ELSE IF c = "g" THEN yes(chord_g(a))
       ELSE IF c = "/" THEN yes(key_slash(a))
       ELSE IF c = "n" THEN yes(move_next(a))
       ELSE IF c = "N" THEN yes(move_prev(a))
       ELSE IF c = "Esc" THEN yes(clear_status(set_pending(a, None)))
       ELSE [app |-> a, handled |-> FALSE]

\* a tail that never clears the marker
normal_tail_keeps_marker(m, key) == m.app

\* the `if handled { match key.code { 'g' | 'd' => {} _ => set_pending(None) } }` tail
normal_tail(m, key) ==
    IF m.handled
    THEN IF key.code \in {"g", "d"} THEN m.app ELSE set_pending(m.app, None)
    ELSE set_pending(m.app, None)

handle_normal_key(a, key, env) ==
    IF key.code = "q" THEN [app |-> a, ret |-> RetExit(None)]
    ELSE IF key.code = "Enter"
         THEN [app |-> a, ret |-> RetExit(selected_session(a))]
         ELSE [app |-> normal_tail(normal_match(a, key, env), key), ret |-> RetNone]

(***************************************************************************)
(* ui/mod.rs: handle_search_key                                            *)
(***************************************************************************)
handle_search_key(a, key) ==
    LET c == key.code
    IN IF c \in {"Esc", "Enter"} THEN clear_status(set_mode(a, "Normal"))
       ELSE IF c = "Backspace" THEN backspace(a)
       ELSE IF c \in {"Up", "k"} THEN move_prev(a)
       ELSE IF c \in {"Down", "j"} THEN move_next(a)
       ELSE IF IsCharKey(key) /\ Plain(key) THEN on_char(a, c)
       ELSE a

(***************************************************************************)
(* ui/mod.rs: handle_confirm_delete_key                                    *)
(***************************************************************************)
\* a mismatch that closes the confirmation instead of keeping it open
confirm_enter_mismatch_cancels(a, st) ==
    IF confirm_delete_matches(a) /\ IsSome(a.delete_target)
    THEN LET target == Unwrap(a.delete_target)
             r == store_remove(st, target)
         IN IF ~r.ok
            THEN Out(a, r.store, RetErr, <<Call("remove", target, FALSE)>>)
            ELSE Out(cancel_delete(
                         set_status(remove_by_name(a, target), MsgDeleted(target))),
                     r.store, RetNone, <<Call("remove", target, TRUE)>>)
    ELSE Out(cancel_delete(set_status(a, MsgMismatch)), st, RetNone, <<>>)

\* Enter that asks the store about the target before looking at the buffer
confirm_enter_probes_store(a, st) ==
    IF IsSome(a.delete_target) /\ ~confirm_delete_matches(a)
    THEN Out(set_status(a, MsgMismatch), st, RetNone,
             <<Call("remove", a.delete_input, FALSE)>>)
    ELSE IF IsSome(a.delete_target)
    THEN LET target == Unwrap(a.delete_target)
             r == store_remove(st, target)
         IN IF ~r.ok
            THEN Out(a, r.store, RetErr, <<Call("remove", target, FALSE)>>)
            ELSE Out(cancel_delete(
                         set_status(remove_by_name(a, target), MsgDeleted(target))),
                     r.store, RetNone, <<Call("remove", target, TRUE)>>)
    ELSE Out(cancel_delete(a), st, RetNone, <<>>)

confirm_enter(a, st) ==
    IF confirm_delete_matches(a)
    THEN IF IsSome(a.delete_target)
         THEN LET target == Unwrap(a.delete_target)
                  r == store_remove(st, target)
              IN IF ~r.ok
                 THEN \* store.remove(&target)? returns the error to run_app
                      Out(a, r.store, RetErr, <<Call("remove", target, FALSE)>>)
                 ELSE Out(cancel_delete(
                              set_status(remove_by_name(a, target), MsgDeleted(target))),
                          r.store, RetNone, <<Call("remove", target, TRUE)>>)
         ELSE Out(cancel_delete(a), st, RetNone, <<>>)
    ELSE Out(set_status(a, MsgMismatch), st, RetNone, <<>>)

handle_confirm_delete_key(a, st, key) ==
    LET c == key.code
    IN IF c = "Esc" THEN Out(clear_status(cancel_delete(a)), st, RetNone, <<>>)
       ELSE IF c = "Enter" THEN confirm_enter(a, st)
       ELSE IF c = "Backspace" THEN Out(pop_delete_input(a), st, RetNone, <<>>)
       ELSE IF IsCharKey(key) /\ Plain(key)
            THEN Out(push_delete_input(a, c), st, RetNone, <<>>)
       ELSE Out(a, st, RetNone, <<>>)

(***************************************************************************)
(* ui/mod.rs: submit_add_session and handle_add_session_key                *)
(***************************************************************************)
submit_add_session(a, st) ==
    IF ~IsSome(a.add_form) THEN Out(a, st, RetNone, <<>>)
    ELSE
    LET form == Unwrap(a.add_form)
        name == trim(form.name)
        host == trim(form.host)
        user == trim(form.user)
        port_input == trim(form.port)
        identity_input == trim(form.identity_file)
        port == IF port_input = <<>> THEN Some(22) ELSE parse_u16(port_input)
    IN IF name = <<>> \/ host = <<>> \/ user = <<>>
       THEN Out(set_status(a, MsgRequired), st, RetNone, <<>>)
       ELSE IF ~IsSome(port)
       THEN Out(set_status(a, MsgPort), st, RetNone, <<>>)
       ELSE
       LET session == [name              |-> name,
                       host              |-> host,
                       user              |-> user,
                       port              |-> Unwrap(port),
                       identity_file     |-> IF identity_input = <<>> THEN None
                                             ELSE Some(identity_input),
                       tags              |-> split_tags(form.tags),
                       last_connected_at |-> None]
           r == store_add(st, session)
       IN IF ~r.ok
          THEN Out(set_status(a, MsgAddFailed(name)), r.store, RetNone,
                   <<Call("add", name, FALSE)>>)
          ELSE Out(set_status(cancel_add_session(add_session(a, session)),
                              MsgAdded(name)),
                   r.store, RetNone, <<Call("add", name, TRUE)>>)

with_add_form(a, form) == [a EXCEPT !.add_form = Some(form)]

add_edit(form, v, env) ==
    LET f2 == set_active_value(form, v)
    IN IF f2.field = "Identity" THEN update_identity_state(f2, env) ELSE f2

\* Enter submitting from whatever field the cursor is on
handle_add_session_key_enter_submits(a, st, key, env) ==
    IF ~IsSome(a.add_form) THEN Out(cancel_add_session(a), st, RetNone, <<>>)
    ELSE
    LET form == Unwrap(a.add_form)
        c == key.code
        upd(f) == Out(with_add_form(a, f), st, RetNone, <<>>)
    IN IF c = "Esc" THEN Out(clear_status(cancel_add_session(a)), st, RetNone, <<>>)
       ELSE IF c \in {"Tab", "Down"} THEN upd(add_next_field(form))
       ELSE IF c \in {"BackTab", "Up"} THEN upd(add_prev_field(form))
       ELSE IF c = "Enter" THEN submit_add_session(a, st)
       ELSE IF c = "Backspace" THEN upd(add_edit(form, pop(active_value(form)), env))
       ELSE IF IsCharKey(key) /\ Plain(key)
            THEN upd(add_edit(form, Append(active_value(form), c), env))
       ELSE Out(a, st, RetNone, <<>>)

handle_add_session_key(a, st, key, env) ==
    IF ~IsSome(a.add_form) THEN Out(cancel_add_session(a), st, RetNone, <<>>)
    ELSE
    LET form == Unwrap(a.add_form)
        c == key.code
        upd(f) == Out(with_add_form(a, f), st, RetNone, <<>>)
    IN IF c = "Esc" THEN Out(clear_status(cancel_add_session(a)), st, RetNone, <<>>)
       ELSE IF c \in {"Tab", "Down"} THEN upd(add_next_field(form))
       ELSE IF c \in {"BackTab", "Up"} THEN upd(add_prev_field(form))
       ELSE IF c = "Enter"
            THEN IF form.field = "Tags" THEN submit_add_session(a, st)
                 ELSE upd(add_next_field(form))
       ELSE IF c = "Backspace" THEN upd(add_edit(form, pop(active_value(form)), env))
       ELSE IF IsCharKey(key) /\ Plain(key)
            THEN upd(add_edit(form, Append(active_value(form), c), env))
       ELSE Out(a, st, RetNone, <<>>)

(***************************************************************************)
(* ui/mod.rs: submit_scp and handle_scp_key                                *)
(***************************************************************************)
\* the positional arguments in one order whatever the direction
scp_args_local_first(session, direction, recursive, local_path, remote_path) ==
    LET remote_target == session.user \o <<"@">> \o session.host \o <<":">> \o remote_path
    IN (IF recursive THEN << <<"-", "r">> >> ELSE <<>>)
       \o (IF IsSome(session.identity_file)
           THEN << <<"-", "i">>, Unwrap(session.identity_file) >>
           ELSE <<>>)
       \o << <<"-", "P">>, to_string(session.port) >>
       \o <<local_path, remote_target>>

scp_args(session, direction, recursive, local_path, remote_path) ==
    LET remote_target == session.user \o <<"@">> \o session.host \o <<":">> \o remote_path
    IN (IF recursive THEN << <<"-", "r">> >> ELSE <<>>)
       \o (IF IsSome(session.identity_file)
           THEN << <<"-", "i">>, Unwrap(session.identity_file) >>
           ELSE <<>>)
       \o << <<"-", "P">>, to_string(session.port) >>
       \o (IF direction = "To"
           THEN <<local_path, remote_target>>
           ELSE <<remote_target, local_path>>)

\* env.scp is what command.status() gives: "zero", "nonzero", or "spawn_error"
submit_scp(a, st, env) ==
    IF ~IsSome(a.scp_form) THEN Out(a, st, RetNone, <<>>)
    ELSE
    LET form == Unwrap(a.scp_form)
        local_path == trim(form.local_path)
        remote_path == trim(form.remote_path)
        session == form.session
        argv == scp_args(session, form.direction, form.recursive, local_path, remote_path)
    IN IF local_path = <<>> \/ remote_path = <<>>
       THEN Out(set_status(a, MsgPaths), st, RetNone, <<>>)
       ELSE IF env.scp = "spawn_error"
       THEN Out(a, st, RetErr, <<Spawn(argv, FALSE)>>)
       ELSE IF env.scp = "nonzero"
       THEN Out(set_status(a, MsgScpStatus), st, RetNone, <<Spawn(argv, FALSE)>>)
       ELSE
       LET r == store_touch_last_connected(st, session.name, env.now)
       IN IF ~r.ok
          THEN Out(a, r.store, RetErr,
                   <<Spawn(argv, TRUE), Call("touch_last_connected", session.name, FALSE)>>)
          ELSE Out(set_status(cancel_scp(a), MsgScpDone(session.name)), r.store, RetNone,
                   <<Spawn(argv, TRUE), Call("touch_last_connected", session.name, TRUE)>>)

with_scp_form(a, form) == [a EXCEPT !.scp_form = Some(form)]

handle_scp_key(a, st, key, env) ==
    IF ~IsSome(a.scp_form) THEN Out(cancel_scp(a), st, RetNone, <<>>)
    ELSE
    LET form == Unwrap(a.scp_form)
        field == form.field
        c == key.code
        upd(f) == Out(with_scp_form(a, f), st, RetNone, <<>>)
    IN IF c = "Esc" THEN Out(clear_status(cancel_scp(a)), st, RetNone, <<>>)
       ELSE IF c = "Tab" THEN upd(scp_next_field(form))
       ELSE IF c = "BackTab" THEN upd(scp_prev_field(form))
       ELSE IF c = "Enter"
            THEN IF field = "Recursive" THEN submit_scp(a, st, env)
                 ELSE upd(scp_next_field(form))
       ELSE IF c \in {"Left", "Right", "t", " "} /\ field = "Direction"
            THEN upd(toggle_direction(form))
       ELSE IF c \in {"Left", "Right", "r", " "} /\ field = "Recursive"
            THEN upd(toggle_recursive(form))
       ELSE IF c = "Backspace"
            THEN IF scp_editable(form) THEN upd(scp_edit(form, pop(scp_active(form))))
                 ELSE upd(form)
       ELSE IF IsCharKey(key) /\ Plain(key)
            THEN IF scp_editable(form)
                 THEN upd(scp_edit(form, Append(scp_active(form), c)))
                 ELSE upd(form)
       ELSE Out(a, st, RetNone, <<>>)

(***************************************************************************)
(* ui/mod.rs: handle_key                                                   *)
(***************************************************************************)
IsCtrlC(key) == key.ctrl /\ key.code = "c"

\* the interrupt looked at in Normal mode only
handle_key_interrupt_in_normal(a, st, key, env) ==
    CASE a.mode = "Normal" ->
             IF IsCtrlC(key) THEN Out(a, st, RetExit(None), <<>>)
             ELSE LET r == handle_normal_key(a, key, env)
                  IN Out(r.app, st, r.ret, <<>>)
      [] a.mode = "Search" -> Out(handle_search_key(a, key), st, RetNone, <<>>)
      [] a.mode = "ConfirmDelete" -> handle_confirm_delete_key(a, st, key)
      [] a.mode = "AddSession" -> handle_add_session_key(a, st, key, env)
      [] a.mode = "Scp" -> handle_scp_key(a, st, key, env)

handle_key(a, st, key, env) ==
    IF IsCtrlC(key) THEN Out(a, st, RetExit(None), <<>>)
    ELSE CASE a.mode = "Normal" ->
                  LET r == handle_normal_key(a, key, env)
                  IN Out(r.app, st, r.ret, <<>>)
           [] a.mode = "Search" -> Out(handle_search_key(a, key), st, RetNone, <<>>)
           [] a.mode = "ConfirmDelete" -> handle_confirm_delete_key(a, st, key)
           [] a.mode = "AddSession" -> handle_add_session_key(a, st, key, env)
           [] a.mode = "Scp" -> handle_scp_key(a, st, key, env)

(***************************************************************************)
(* The environment: what the user types and what the system calls answer   *)
(***************************************************************************)
KeyEvents ==
    {Key(c) : c \in Chars \cup SpecialCodes}
        \cup {Ctrl(c) : c \in {"c", "d", "u", "g"}}
        \cup {Alt(c) : c \in {"d", "a"}}

QueryChars == {"a", "b"}     \* typed into the search query
NameChars == {"a", "b"}      \* typed into the delete confirmation and the Name field
HostChars == {"a"}           \* typed into the Host field
UserChars == {"u"}           \* typed into the User field
PathChars == {"a"}           \* typed into the Local and Remote fields

BufOK(s, cap, alphabet) == Len(s) <= cap /\ \A i \in 1..Len(s) : s[i] \in alphabet

\* Port, Identity and Tags are left as the form opens them
AddFormBounded(f) ==
    /\ BufOK(f.name, MaxField, NameChars)
    /\ BufOK(f.host, MaxField, HostChars)
    /\ BufOK(f.user, MaxField, UserChars)
    /\ f.port = AddSessionForm_new(None).port
    /\ f.identity_file = <<>>
    /\ f.tags = <<>>

ScpFormBounded(f) ==
    /\ BufOK(f.local_path, MaxField, PathChars)
    /\ BufOK(f.remote_path, MaxField, PathChars)

\* the part of the program's state space the model explores
Bounded(a) ==
    /\ BufOK(a.filter, MaxQuery, QueryChars)
    /\ BufOK(a.delete_input, MaxConfirm, NameChars)
    /\ Len(a.sessions) <= MaxSessions
    /\ IsSome(a.add_form) => AddFormBounded(Unwrap(a.add_form))
    /\ IsSome(a.scp_form) => ScpFormBounded(Unwrap(a.scp_form))

Session(name, host, user, identity, tags) ==
    [name |-> name, host |-> host, user |-> user, port |-> 22,
     identity_file |-> identity, tags |-> tags, last_connected_at |-> None]

SessA == Session(<<"a">>, <<"a">>, <<"u">>, None, <<>>)
SessAB == Session(<<"a", "b">>, <<"h", "h">>, <<"u">>, Some(<<"i">>), << <<"t">> >>)

\* store files the program is started on (file order, not sorted)
InitStores == {<<SessAB, SessA>>}

Env(user, scp, exists) ==
    [user |-> user, scp |-> scp, now |-> 1, exists |-> exists, suggestions |-> <<>>]

Env0 == Env(None, "nonzero", FALSE)

\* default_user(): USER or USERNAME may be unset; only the add keys read it
DefaultUsers(key) ==
    IF key.code \in {"a", "o", "O"} THEN {None, Some(<<"u">>)} ELSE {None}

\* how the scp child ends; only Enter can start one.  Here every transfer fails.
ScpOutcomes(key) ==
    IF key.code = "Enter" THEN {"nonzero", "spawn_error"} ELSE {"nonzero"}

Running == [kind |-> "running", selection |-> None]

\* the terminal as the caller hands it over, and as the loop runs on it
TermNormal == [raw |-> FALSE, alt |-> FALSE]
TermTui == [raw |-> TRUE, alt |-> TRUE]

\* run_tui has returned: its local AppState no longer exists
Dropped == AppState_new(<<>>)

(***************************************************************************)
(* run_tui up to the first draw, and one iteration of run_app per key      *)
(***************************************************************************)
Init ==
    /\ store \in InitStores
    /\ \E show_monitor \in BOOLEAN :
           app = set_monitor_enabled(AppState_new(store_list(store)), show_monitor)
    /\ result = Running
    /\ calls = <<>>
    /\ pc = "poll"
    /\ term = TermTui
    /\ now = 0

\* run_app: one key event read and dispatched; a return leaves the loop
Handled(out) ==
    /\ app' = IF out.ret.kind = "continue" THEN out.app ELSE Dropped
    /\ store' = out.store
    /\ calls' = out.calls
    /\ result' = IF out.ret.kind = "continue" THEN result ELSE out.ret

KeyStep(key, env) ==
    /\ result.kind = "running"
    /\ \E out \in {handle_key(app, store, key, env)} :
          /\ Bounded(out.app)
          /\ Handled(out)

\* The draw of each iteration changes only the monitor fields, which no key
\* handler reads: here the loop is followed from key to key.
Step(key, env) == KeyStep(key, env) /\ UNCHANGED <<pc, term, now>>

Interrupt == \E key \in KeyEvents : IsCtrlC(key) /\ Step(key, Env0)

NormalKey ==
    /\ app.mode = "Normal"
    /\ \E key \in KeyEvents :
           /\ ~IsCtrlC(key)
           /\ \E user \in DefaultUsers(key) : Step(key, Env(user, "nonzero", FALSE))

SearchKey ==
    /\ app.mode = "Search"
    /\ \E key \in KeyEvents : ~IsCtrlC(key) /\ Step(key, Env0)

ConfirmDeleteKey ==
    /\ app.mode = "ConfirmDelete"
    /\ \E key \in KeyEvents : ~IsCtrlC(key) /\ Step(key, Env0)

AddSessionKey ==
    /\ app.mode = "AddSession"
    /\ \E key \in KeyEvents : ~IsCtrlC(key) /\ Step(key, Env0)

ScpKey ==
    /\ app.mode = "Scp"
    /\ \E key \in KeyEvents :
           /\ ~IsCtrlC(key)
           /\ \E scp \in ScpOutcomes(key) : Step(key, Env(None, scp, FALSE))

Next ==
    \/ Interrupt
    \/ NormalKey
    \/ SearchKey
    \/ ConfirmDeleteKey
    \/ AddSessionKey
    \/ ScpKey

Spec == Init /\ [][Next]_vars

(***************************************************************************)
(* The add form on its own: the loop taken up in AddSession mode with the  *)
(* form already typed in, and followed through field moves, submissions   *)
(* and cancellation.                                                       *)
(***************************************************************************)
\* the AppState after '/', a query, Enter, 'a' and the typing of the form
AddFormTyped(st, query, name, host, user, port, identity, tags) ==
    LET listed == AppState_new(store_list(st))
        searched == refresh_filter([listed EXCEPT !.filter = query])
        opened == set_status(start_add_session(searched, None), MsgAdd)
    IN [opened EXCEPT !.add_form[1].name = name,
                      !.add_form[1].host = host,
                      !.add_form[1].user = user,
                      !.add_form[1].port = port,
                      !.add_form[1].identity_file = identity,
                      !.add_form[1].identity_exists =
                          IF trim(identity) = <<>> THEN None ELSE Some(FALSE),
                      !.add_form[1].tags = tags]

InitAdd ==
    /\ store \in InitStores
    /\ \E query \in {<<>>, <<"b">>},
          name \in {<<>>, <<" ">>, <<"a">>, <<"b">>, <<" ", "b", " ">>},
          host \in {<<>>, <<"h">>},
          user \in {<<" ">>, <<"u">>},
          port \in {<<>>, <<" ">>, <<"2", "2">>, <<"0">>, <<"+", "7">>, <<"-", "7">>,
                    <<"2", "a">>, <<" ", "8", "0", " ">>,
                    <<"6", "5", "5", "3", "5">>, <<"6", "5", "5", "3", "6">>},
          identity \in {<<>>, <<"i">>},
          tags \in {<<>>, <<"t">>, <<"t", ",", " ", ",", "s", " ">>} :
           app = AddFormTyped(store, query, name, host, user, port, identity, tags)
    /\ result = Running
    /\ calls = <<>>
    /\ pc = "poll"
    /\ term = TermTui
    /\ now = 0

AddFormKey(key) ==
    /\ result.kind = "running"
    /\ app.mode = "AddSession"
    /\ Handled(handle_key(app, store, key, Env0))
    /\ UNCHANGED <<pc, term, now>>

NextAdd ==
    \/ \E code \in {"Tab", "BackTab", "Up", "Down"} : AddFormKey(Key(code))
    \/ AddFormKey(Key("Enter"))
    \/ AddFormKey(Key("Esc"))

SpecAdd == InitAdd /\ [][NextAdd]_vars

(***************************************************************************)
(* The transfer form on its own: the loop taken up in Scp mode on a        *)
(* selected session with the paths typed in, and followed through field    *)
(* moves, toggles, submissions (whatever the child's fate) and             *)
(* cancellation.                                                           *)
(***************************************************************************)
\* the AppState after moving to entry `index`, 's', and the typing of the paths
ScpFormTyped(st, index, local_path, remote_path) ==
    LET listed == AppState_new(store_list(st))
        opened == key_s([listed EXCEPT !.selected = index])
    IN [opened EXCEPT !.scp_form[1].local_path = local_path,
                      !.scp_form[1].remote_path = remote_path]

InitScp ==
    /\ \E port \in {0, 7, 22, 2200, 65535} :
           store = <<SessAB, [SessA EXCEPT !.port = port]>>
    /\ \E index \in {0, 1},
          local_path \in {<<>>, <<" ">>, <<"a">>, <<" ", "a", " ">>},
          remote_path \in {<<>>, <<" ">>, <<"r">>} :
           app = ScpFormTyped(store, index, local_path, remote_path)
    /\ result = Running
    /\ calls = <<>>
    /\ pc = "poll"
    /\ term = TermTui
    /\ now = 0

ScpFormKey(key, scp) ==
    /\ result.kind = "running"
    /\ app.mode = "Scp"
    /\ Handled(handle_key(app, store, key, Env(None, scp, FALSE)))
    /\ UNCHANGED <<pc, term, now>>

NextScp ==
    \/ \E code \in {"Tab", "BackTab"} : ScpFormKey(Key(code), "nonzero")
    \/ /\ IsSome(app.scp_form)
       /\ Unwrap(app.scp_form).field \in {"Direction", "Recursive"}
       /\ \E code \in {"Left", "Right", "t", "r", " "} : ScpFormKey(Key(code), "nonzero")
    \/ \E scp \in {"zero", "nonzero", "spawn_error"} : ScpFormKey(Key("Enter"), scp)
    \/ ScpFormKey(Key("Esc"), "nonzero")

SpecScp == InitScp /\ [][NextScp]_vars

(***************************************************************************)
(* The loop with its draws and its clock: every iteration draws, then      *)
(* polls for a key; the poll returns at once with a key, or empty-handed   *)
(* when its timeout has passed.                                            *)
(***************************************************************************)
InitMonitor ==
    /\ store \in InitStores
    /\ \E show_monitor \in BOOLEAN :
           app = set_monitor_enabled(AppState_new(store_list(store)), show_monitor)
    /\ result = Running
    /\ calls = <<>>
    /\ pc = "draw"
    /\ term = TermTui
    /\ now = 0

\* what ps may print: nothing, a connection to host "a", or that one and a
\* connection to host "hh"
PsOutputs ==
    LET to_a == [pid |-> 7, command |-> <<"s", "s", "h", " ", "u", "@", "a">>]
        to_hh == [pid |-> 8, command |-> <<"s", "s", "h", " ", "u", "@", "h", "h">>]
    IN {<<>>, <<to_a>>, <<to_a, to_hh>>}

Draw ==
    /\ result.kind = "running"
    /\ pc = "draw"
    /\ \E ps \in PsOutputs :
          /\ app' = draw_ui(app, now, ps).app
          /\ calls' = draw_ui(app, now, ps).calls
    /\ pc' = "poll"
    /\ UNCHANGED <<store, result, term, now>>

PollKey ==
    /\ pc = "poll"
    /\ \E code \in {"m", "j", "k", "/", "b", "Backspace", "Esc", "Enter"} :
           KeyStep(Key(code), Env0)
    /\ pc' = "draw"
    /\ UNCHANGED <<term, now>>

PollTimedOut ==
    /\ result.kind = "running"
    /\ pc = "poll"
    /\ now + PollTimeout <= MaxTime
    /\ now' = now + PollTimeout
    /\ pc' = "draw"
    /\ calls' = <<>>
    /\ UNCHANGED <<app, store, result, term>>

NextMonitor ==
    \/ Draw
    \/ PollKey
    \/ PollTimedOut

SpecMonitor == InitMonitor /\ [][NextMonitor]_vars

(***************************************************************************)
(* run_tui from its first terminal call to its return, and the caller      *)
(* (cli run_tui) connecting to the selection it gets back.  Each call      *)
(* followed by `?` may fail, and then run_tui returns at once.             *)
(***************************************************************************)
InitTui ==
    /\ store \in InitStores
    /\ \E show_monitor \in BOOLEAN :
           app = set_monitor_enabled(AppState_new(store_list(store)), show_monitor)
    /\ result = Running
    /\ calls = <<>>
    /\ pc = "enable_raw"
    /\ term = TermNormal
    /\ now = 0

\* `call()?;` at position `at`: on Ok the terminal is as the call leaves it
\* and run_tui goes on at `next`; on Err run_tui returns the error
TuiCall(at, next, done) ==
    /\ pc = at
    /\ \E ok \in BOOLEAN :
           IF ok
           THEN pc' = next /\ term' = done /\ result' = result
           ELSE pc' = "returned" /\ term' = term /\ result' = RetErr
    /\ calls' = <<>>
    /\ UNCHANGED <<app, store, now>>

\* terminal.draw(..)? or event::poll(..)? or event::read()? fails: run_app returns
LoopFails ==
    /\ result.kind = "running"
    /\ pc \in {"draw", "poll"}
    /\ result' = RetErr
    /\ app' = Dropped
    /\ calls' = <<>>
    /\ pc' = "disable_raw"
    /\ UNCHANGED <<store, term, now>>

TuiKey ==
    /\ pc = "poll"
    /\ \E key \in {Key("q"), Key("Enter"), Ctrl("c"), Key("j"), Key("s"), Key("a"),
                    Key("Tab"), Key("Esc")} :
           \E scp \in ScpOutcomes(key) \cup {"zero"} : KeyStep(key, Env(None, scp, FALSE))
    /\ pc' = IF result'.kind = "running" THEN "draw" ELSE "disable_raw"
    /\ UNCHANGED <<term, now>>

\* cli/mod.rs run_ssh
ssh_args(session) ==
    (IF IsSome(session.identity_file)
     THEN << <<"-", "i">>, Unwrap(session.identity_file) >>
     ELSE <<>>)
    \o << <<"-", "p">>, to_string(session.port),
          session.user \o <<"@">> \o session.host >>

Ssh(argv, ok) == [op |-> "ssh", name |-> <<>>, ok |-> ok, argv |-> argv]

\* cli/mod.rs run_tui: ui::run_tui(..)? gave Some(session)
Connect ==
    /\ pc = "returned"
    /\ result.kind = "exit"
    /\ IsSome(result.selection)
    /\ \E ssh \in {"zero", "nonzero"} :
           LET session == Unwrap(result.selection)
               r == store_touch_last_connected(store, session.name, Env0.now)
           IN IF ssh = "zero"
              THEN /\ store' = r.store
                   /\ calls' = <<Ssh(ssh_args(session), TRUE),
                                 Call("touch_last_connected", session.name, r.ok)>>
              ELSE /\ store' = store
                   /\ calls' = <<Ssh(ssh_args(session), FALSE)>>
    /\ pc' = "done"
    /\ UNCHANGED <<app, result, term, now>>

NextTui ==
    \/ TuiCall("enable_raw", "enter_alt", [term EXCEPT !.raw = TRUE])
    \/ TuiCall("enter_alt", "new_terminal", [term EXCEPT !.alt = TRUE])
    \/ TuiCall("new_terminal", "draw", term)
    \/ Draw
    \/ TuiKey
    \/ LoopFails
    \/ TuiCall("disable_raw", "leave_alt", [term EXCEPT !.raw = FALSE])
    \/ TuiCall("leave_alt", "show_cursor", [term EXCEPT !.alt = FALSE])
    \/ TuiCall("show_cursor", "returned", term)
    \/ Connect

SpecTui == InitTui /\ [][NextTui]_vars

(***************************************************************************)
(* The store file shared with another invocation of the program: while the *)
(* TUI runs on the catalog it loaded, `remove <name>` run elsewhere takes  *)
(* sessions out of the same file.                                          *)
(***************************************************************************)
\* cli/mod.rs remove_session in another process
OtherRemove ==
    /\ result.kind = "running"
    /\ \E i \in 1..Len(store) :
           store' = store_remove(store, store[i].name).store
    /\ UNCHANGED <<app, result, calls, pc, term, now>>

\* the keys that open, fill in and submit the confirmation and the scp form
SharedKey ==
    \E key \in {Key(c) : c \in {"d", "s", "a", "b", "j", "Enter", "Tab", "Esc"}} :
        \E scp \in {"zero", "nonzero"} : Step(key, Env(None, scp, FALSE))

NextShared ==
    \/ SharedKey
    \/ OtherRemove

SpecShared == Init /\ [][NextShared]_vars

(***************************************************************************)
(* cli/mod.rs: the commands that write the store, run one after another on *)
(* a store file that starts empty                                          *)
(***************************************************************************)
\* for session in sessions { store.add(session.clone())?; }
RECURSIVE add_each(_, _, _)
add_each(st, sessions, done) ==
    IF sessions = <<>> THEN [store |-> st, ok |-> TRUE, calls |-> done]
    ELSE LET r == store_add(st, Head(sessions))
             cs == Append(done, Call("add", Head(sessions).name, r.ok))
         IN IF ~r.ok THEN [store |-> r.store, ok |-> FALSE, calls |-> cs]
            ELSE add_each(r.store, Tail(sessions), cs)

\* choice is the line read from stdin when there are conflicts: "o", "s", "q",
\* or "i" answered with yes ("iy") or no ("in") at every prompt
import_sessions(st, imported, force, choice) ==
    LET existing == store_list(st)
        conflict(s) == HasName(existing, s.name)
        free(s) == ~conflict(s)
        conflicts == SelectSeq(imported, conflict)
        to_import == SelectSeq(imported, free)
    IN IF force THEN add_each(st, imported, <<>>)
       ELSE LET r == add_each(st, to_import, <<>>)
            IN IF ~r.ok \/ conflicts = <<>> \/ choice \notin {"o", "iy"} THEN r
               ELSE add_each(r.store, conflicts, r.calls)

CliNames == {<<"a">>, <<"b">>, <<"c">>}
CliHosts == {<<"h">>, <<"g">>}
CliSessions == {Session(name, host, <<"u">>, None, <<>>) : name \in CliNames, host \in CliHosts}

\* the input files of import: one or two sessions
CliImports ==
    {<<s>> : s \in CliSessions} \cup {<<s, t>> : s \in CliSessions, t \in CliSessions}

InitCli ==
    /\ store = <<>>
    /\ app = Dropped
    /\ result = Running
    /\ calls = <<>>
    /\ pc = "cli"
    /\ term = TermNormal
    /\ now = 0

\* one command: the store it leaves and the store calls it made
Ran(r) ==
    /\ store' = r.store
    /\ calls' = r.calls
    /\ UNCHANGED <<app, result, pc, term, now>>

CliAdd ==
    \E session \in CliSessions : Ran(add_each(store, <<session>>, <<>>))

CliRemove ==
    \E name \in CliNames :
        LET r == store_remove(store, name)
        IN Ran([store |-> r.store, calls |-> <<Call("remove", name, r.ok)>>])

\* run_tui after a connection, or run_scp after a transfer
CliTouch ==
    \E name \in CliNames :
        LET r == store_touch_last_connected(store, name, Env0.now)
        IN Ran([store |-> r.store,
                calls |-> <<Call("touch_last_connected", name, r.ok)>>])

CliImport ==
    \E imported \in CliImports, force \in BOOLEAN :
        \* stdin is read only without --force
        \E choice \in IF force THEN {"q"} ELSE {"o", "s", "iy", "in", "q"} :
            Ran(import_sessions(store, imported, force, choice))

NextCli ==
    \/ CliAdd
    \/ CliRemove
    \/ CliTouch
    \/ CliImport

SpecCli == InitCli /\ [][NextCli]_vars

(***************************************************************************)
(* The search query on its own: the loop taken up in Search mode on a      *)
(* catalog whose sessions differ in every field, and followed through the  *)
(* typing and erasing of the query.                                        *)
(***************************************************************************)
FilterSessions ==
    {Session(<<"G", "a">>, <<"n">>, <<"u">>, None, <<>>),
     Session(<<"b">>, <<"O">>, <<"u">>, Some(<<"g">>), <<>>),
     Session(<<"c">>, <<"n">>, <<"u">>, None, << <<"t">>, <<"a", " ", "o">> >>)}

InitFilter ==
    /\ \E n \in 0..MaxSessions : \E file \in [1..n -> FilterSessions] :
           /\ \A i, j \in 1..n : file[i] = file[j] => i = j
           /\ store = file
    /\ app = handle_key(AppState_new(store_list(store)), store, Key("/"), Env0).app
    /\ result = Running
    /\ calls = <<>>
    /\ pc = "poll"
    /\ term = TermTui
    /\ now = 0

FilterKey(key) ==
    /\ result.kind = "running"
    /\ app.mode = "Search"
    /\ \E out \in {handle_key(app, store, key, Env0)} :
           /\ Len(out.app.filter) <= MaxQuery
           /\ Handled(out)
    /\ UNCHANGED <<pc, term, now>>

NextFilter ==
    \/ \E c \in {"a", "g", "G", "o", "t", "u", " "} : FilterKey(Key(c))
    \/ FilterKey(Key("Backspace"))

SpecFilter == InitFilter /\ [][NextFilter]_vars

(***************************************************************************)
(* Vocabulary of the properties                                            *)
(***************************************************************************)
IsRunning == result.kind = "running"

Names(sessions) == {sessions[i].name : i \in 1..Len(sessions)}

\* every answer the environment can give to the system calls a key may cause
AllEnvs(key) ==
    {Env(user, scp, FALSE) :
        user \in DefaultUsers(key),
        scp \in IF key.code = "Enter" THEN {"zero", "nonzero", "spawn_error"}
                ELSE {"nonzero"}}

\* the step the loop takes when it reads this key
Pressed(key) == \E env \in AllEnvs(key) : Step(key, env)

ViewIsFresh(a) == a.filtered_indices = filter_sessions(a.sessions, a.filter)

(***************************************************************************)
(* C1  In every reachable state the selection cursor is either none (the   *)
(* filtered list is empty) or an index strictly less than the length of    *)
(* the filtered-index list.                                                *)
(***************************************************************************)
C1_CursorInRange ==
    /\ app.selected \in Nat
    /\ IsSome(selected_index(app)) =>
           Unwrap(selected_index(app)) < Len(app.filtered_indices)
    /\ ~IsSome(selected_index(app)) => app.filtered_indices = <<>>

\* The last entry of an unfiltered two-entry view was selected and deleted:
\* the cursor, left at 1 by the deletion, was pulled back to 0.
C1_Witness ==
    /\ IsRunning
    /\ calls = <<Call("remove", SessAB.name, TRUE)>>
    /\ app.filter = <<>>
    /\ app.sessions = <<SessA>>
    /\ app.filtered_indices = <<0>>
    /\ app.selected = 0

(***************************************************************************)
(* C2  A session leaves the store or the in-memory catalog only by Enter   *)
(* in ConfirmDelete at a moment when the confirmation buffer equals the    *)
(* delete target's name exactly; a strict prefix or an extension of the    *)
(* name never removes anything.                                            *)
(***************************************************************************)
StoreLoses == Names(store) \ Names(store') # {}
CatalogLoses == result'.kind = "running" /\ Names(app.sessions) \ Names(app'.sessions) # {}

C2_RemovalOnlyOnExactConfirm ==
    [][(StoreLoses \/ CatalogLoses) =>
          /\ app.mode = "ConfirmDelete"
          /\ IsSome(app.delete_target)
          /\ app.delete_input = Unwrap(app.delete_target)
          /\ Pressed(Key("Enter"))]_vars

\* "ab" has been typed in full and removed, from the store and from the catalog
C2_Witness ==
    /\ IsRunning
    /\ app.status = MsgDeleted(SessAB.name)
    /\ SessAB.name \notin Names(store)
    /\ SessAB.name \notin Names(app.sessions)
    /\ SessA.name \in Names(store)

(***************************************************************************)
(* C3  Enter in ConfirmDelete with the buffer equal to the target name     *)
(* removes the target from the store and from the catalog, recomputes the  *)
(* filtered view, clears the delete target and the buffer, and returns to  *)
(* Normal mode.                                                            *)
(***************************************************************************)
ConfirmedDeleteDone(a, st, target, out) ==
    /\ out.ret = RetNone
    /\ target \notin Names(out.store)
    /\ Names(out.store) = Names(st) \ {target}
    /\ target \notin Names(out.app.sessions)
    /\ Names(out.app.sessions) = Names(a.sessions) \ {target}
    /\ out.calls = <<Call("remove", target, TRUE)>>
    /\ ViewIsFresh(out.app)
    /\ out.app.filtered_indices = filter_sessions(SelectSeq(a.sessions,
                                      LAMBDA s : s.name # target), a.filter)
    /\ out.app.delete_target = None
    /\ out.app.delete_input = <<>>
    /\ out.app.mode = "Normal"
    /\ out.app.status = MsgDeleted(target)

C3_ConfirmedDeleteRemoves ==
    (/\ IsRunning
     /\ app.mode = "ConfirmDelete"
     /\ IsSome(app.delete_target)
     /\ app.delete_input = Unwrap(app.delete_target))
    => ConfirmedDeleteDone(app, store, Unwrap(app.delete_target),
                           handle_key(app, store, Key("Enter"), Env0))

\* the confirmed deletion of "a" from a catalog of three has just been carried out
C3_Witness ==
    /\ IsRunning
    /\ calls = <<Call("remove", SessA.name, TRUE)>>
    /\ app.mode = "Normal"
    /\ app.delete_target = None
    /\ Len(app.sessions) = 2
    /\ Len(store) = 2
    /\ SessA.name \notin Names(app.sessions)

(***************************************************************************)
(* C4  Enter in ConfirmDelete with a buffer different from the target name *)
(* makes no store call, leaves the catalog unchanged, keeps the mode       *)
(* ConfirmDelete with the same delete target, and sets the "does not       *)
(* match" status.                                                          *)
(***************************************************************************)
C4_MismatchKeepsConfirming ==
    (/\ IsRunning
     /\ app.mode = "ConfirmDelete"
     /\ IsSome(app.delete_target)
     /\ app.delete_input # Unwrap(app.delete_target))
    => LET out == handle_key(app, store, Key("Enter"), Env0)
       IN /\ out.calls = <<>>
          /\ out.store = store
          /\ out.ret = RetNone
          /\ out.app.sessions = app.sessions
          /\ out.app.mode = "ConfirmDelete"
          /\ out.app.delete_target = app.delete_target
          /\ out.app.status = MsgMismatch

\* Enter was pressed on a strict prefix of the target's name
C4_Witness ==
    /\ IsRunning
    /\ app.mode = "ConfirmDelete"
    /\ app.status = MsgMismatch
    /\ app.delete_target = Some(SessAB.name)
    /\ app.delete_input = <<"a">>
    /\ calls = <<>>
    /\ SessAB.name \in Names(store)

(***************************************************************************)
(* C5  In ConfirmDelete, AddSession and Scp modes Escape, with any buffer  *)
(* contents and any field cursor, returns to Normal, discards the mode's   *)
(* auxiliary state (delete target and buffer, add form, scp form), makes   *)
(* no store call, spawns no process and leaves the catalog unchanged.      *)
(***************************************************************************)
C5_EscapeDiscards ==
    (IsRunning /\ app.mode \in {"ConfirmDelete", "AddSession", "Scp"})
    => \A env \in AllEnvs(Key("Enter")) :
         LET out == handle_key(app, store, Key("Esc"), env)
         IN /\ out.ret = RetNone
            /\ out.app.mode = "Normal"
            /\ app.mode = "ConfirmDelete" =>
                   out.app.delete_target = None /\ out.app.delete_input = <<>>
            /\ app.mode = "AddSession" => out.app.add_form = None
            /\ app.mode = "Scp" => out.app.scp_form = None
            /\ out.calls = <<>>
            /\ out.store = store
            /\ out.app.sessions = app.sessions

\* an Scp form with text in it and the cursor on its last field, which Escape drops
C5_Witness ==
    /\ IsRunning
    /\ app.mode = "Scp"
    /\ IsSome(app.scp_form)
    /\ Unwrap(app.scp_form).local_path # <<>>
    /\ Unwrap(app.scp_form).field = "Recursive"
    /\ handle_key(app, store, Key("Esc"), Env0).app.scp_form = None
    /\ handle_key(app, store, Key("Esc"), Env0).app.mode = "Normal"

(***************************************************************************)
(* C6  In every mode and with any in-progress form or delete confirmation  *)
(* Ctrl-C makes the loop exit with no selection, without any store call    *)
(* and without changing the catalog; the quit key of Normal mode does the  *)
(* same, so neither persists uncommitted form or deletion state.           *)
(***************************************************************************)
C6_InterruptExits ==
    IsRunning =>
        \A env \in AllEnvs(Key("Enter")) :
            /\ \A key \in KeyEvents :
                   IsCtrlC(key) =>
                       handle_key(app, store, key, env)
                           = Out(app, store, RetExit(None), <<>>)
            /\ app.mode = "Normal" =>
                   handle_key(app, store, Key("q"), env)
                       = Out(app, store, RetExit(None), <<>>)

\* Ctrl-C pressed over a half-typed delete confirmation
C6_Witness ==
    /\ IsRunning
    /\ app.mode = "ConfirmDelete"
    /\ app.delete_input # <<>>
    /\ handle_key(app, store, Ctrl("c"), Env0).ret = RetExit(None)

(***************************************************************************)
(* C7  In Normal mode, after the leading key of a chord ('d' or 'g') has   *)
(* set the pending marker, pressing any different key (Ctrl-modified keys  *)
(* and the other chord's leading key included) clears the pending marker   *)
(* and does not fire the chord's action.                                   *)
(***************************************************************************)
\* the app after the loop has handled this key
AfterKey(a, key, env) == handle_key(a, store, key, env).app

DeleteChordFired(a, a2) ==
    \/ a2.mode = "ConfirmDelete"
    \/ a2.delete_target # None
    \/ a2.status = MsgNoDelete /\ a.status # MsgNoDelete

C7_OtherKeyClearsMarker ==
    (IsRunning /\ app.mode = "Normal" /\ IsSome(app.pending))
    => \A key \in KeyEvents :
         (key # Key(Unwrap(app.pending)) /\ ~IsCtrlC(key) /\ key.code \notin {"q", "Enter"})
         => \A env \in AllEnvs(key) :
              /\ AfterKey(app, key, env).pending = None
              /\ (app.pending = Some("d")
                     => ~DeleteChordFired(app, AfterKey(app, key, env)))

\* 'd' has set the marker and Ctrl-d, a page-down, has left it standing
C7_Witness ==
    /\ IsRunning
    /\ app.mode = "Normal"
    /\ app.pending = Some("d")
    /\ AfterKey(app, Ctrl("d"), Env0).pending = Some("d")
    /\ AfterKey(AfterKey(app, Ctrl("d"), Env0), Key("d"), Env0).mode = "ConfirmDelete"

(***************************************************************************)
(* C8  In Normal mode, pressing a chord's leading key twice in a row fires *)
(* the chord's action exactly once and clears the marker ('dd' starts one  *)
(* delete confirmation for the selected session, 'gg' selects the first    *)
(* entry); a third consecutive press only sets the marker again and fires  *)
(* nothing.                                                                *)
(***************************************************************************)
SelectedName(a) == a.sessions[a.filtered_indices[a.selected + 1] + 1].name

\* the state the chord's action leaves, written out field by field
ChordFiredOnce(a, c) ==
    IF c = "g"
    THEN [a EXCEPT !.pending = None,
                   !.selected = IF a.filtered_indices = <<>> THEN @ ELSE 0]
    ELSE IF a.filtered_indices # <<>>
         THEN [a EXCEPT !.pending = None,
                        !.mode = "ConfirmDelete",
                        !.delete_target = Some(SelectedName(a)),
                        !.delete_input = <<>>,
                        !.status = MsgConfirmDelete]
         ELSE [a EXCEPT !.pending = None, !.status = MsgNoDelete]

FirstTwoPresses(a, c) ==
    LET a1 == AfterKey(a, Key(c), Env0)
        a2 == AfterKey(a1, Key(c), Env0)
    IN /\ a1 = [a EXCEPT !.pending = Some(c)]
       /\ a2 = ChordFiredOnce(a, c)

ChordStart(c) == IsRunning /\ app.mode = "Normal" /\ app.pending # Some(c)

\* the claim as made: the third press sets the marker again, whatever the chord did
C8_ThirdPressSetsMarker ==
    \A c \in {"d", "g"} :
        ChordStart(c) =>
            LET a2 == AfterKey(AfterKey(app, Key(c), Env0), Key(c), Env0)
                a3 == AfterKey(a2, Key(c), Env0)
            IN /\ FirstTwoPresses(app, c)
               /\ a3 = [a2 EXCEPT !.pending = Some(c)]

\* the third press sets the marker again while the mode is still Normal ('gg',
\* or 'dd' with nothing selected); after 'dd' has opened the confirmation it is
\* typed into the confirmation buffer and the marker stays empty
C8_ChordFiresOnce ==
    \A c \in {"d", "g"} :
        ChordStart(c) =>
            LET a2 == AfterKey(AfterKey(app, Key(c), Env0), Key(c), Env0)
                a3 == AfterKey(a2, Key(c), Env0)
            IN /\ FirstTwoPresses(app, c)
               /\ (a2.mode = "Normal" => a3 = [a2 EXCEPT !.pending = Some(c)])
               /\ (a2.mode = "ConfirmDelete"
                      => a3 = [a2 EXCEPT !.delete_input = <<c>>])

\* 'dd' has just opened the confirmation for the selected session
C8_Witness ==
    /\ IsRunning
    /\ app.mode = "ConfirmDelete"
    /\ app.status = MsgConfirmDelete
    /\ app.pending = None
    /\ app.delete_input = <<>>
    /\ app.delete_target = Some(SelectedName(app))
    /\ app.selected = 1

(***************************************************************************)
(* C9  In Search mode every printable character key pressed without        *)
(* Ctrl/Alt appends that character to the query and recomputes the         *)
(* filtered view, and backspace removes the last query character and       *)
(* recomputes.                                                             *)
(***************************************************************************)
C9_EveryCharAppends ==
    (IsRunning /\ app.mode = "Search")
    => /\ \A c \in Chars :
              LET a2 == AfterKey(app, Key(c), Env0)
              IN a2.filter = Append(app.filter, c) /\ ViewIsFresh(a2)
       /\ LET a2 == AfterKey(app, Key("Backspace"), Env0)
          IN a2.filter = pop(app.filter) /\ ViewIsFresh(a2)

\* a search is open on a view of several entries, where 'j' moves the cursor
C9_Witness ==
    /\ IsRunning
    /\ app.mode = "Search"
    /\ Len(app.filtered_indices) > 1
    /\ AfterKey(app, Key("j"), Env0).filter = app.filter
    /\ AfterKey(app, Key("j"), Env0).selected # app.selected

(***************************************************************************)
(* C10  Entering Search from Normal clears the query and recomputes the    *)
(* filter; leaving Search with Enter or Escape returns to Normal and       *)
(* leaves the query, the filtered view and the cursor unchanged.           *)
(***************************************************************************)
C10_SearchEntryAndExit ==
    IsRunning =>
        /\ (app.mode = "Normal" =>
               LET out == handle_key(app, store, Key("/"), Env0)
               IN /\ out.ret = RetNone
                  /\ out.app.mode = "Search"
                  /\ out.app.filter = <<>>
                  /\ out.app.filtered_indices = Range0(Len(app.sessions))
                  /\ out.app.sessions = app.sessions)
        /\ (app.mode = "Search" =>
               \A code \in {"Enter", "Esc"} :
                   LET out == handle_key(app, store, Key(code), Env0)
                   IN /\ out.ret = RetNone
                      /\ out.app.mode = "Normal"
                      /\ out.app.filter = app.filter
                      /\ out.app.filtered_indices = app.filtered_indices
                      /\ out.app.selected = app.selected)

\* Search was left with a query standing: Normal mode over a narrowed view
C10_Witness ==
    /\ IsRunning
    /\ app.mode = "Normal"
    /\ app.filter # <<>>
    /\ Len(app.filtered_indices) < Len(app.sessions)
    /\ app.selected = 1

(***************************************************************************)
(* C11  Submitting the AddSession form with trimmed Name, Host or User     *)
(* empty, or with a trimmed Port text that is not empty and does not parse *)
(* as an unsigned 16-bit integer, makes no store call, leaves the catalog  *)
(* unchanged, and leaves the form open in AddSession mode with its field   *)
(* contents unchanged (a status message is set).                           *)
(***************************************************************************)
Blank(text) == \A i \in 1..Len(text) : IsWhitespace(text[i])

RECURSIVE DecimalValue(_)
DecimalValue(text) ==
    IF text = <<>> THEN 0
    ELSE 10 * DecimalValue(SubSeq(text, 1, Len(text) - 1)) + DigitVal(text[Len(text)])

\* decimal digits, an optional '+' before them, and a value of at most 65535
IsU16Text(text) ==
    LET digits == IF text # <<>> /\ text[1] = "+" THEN Tail(text) ELSE text
    IN /\ digits # <<>>
       /\ \A i \in 1..Len(digits) : IsDigit(digits[i])
       /\ DecimalValue(digits) <= 65535

AddRequiredMissing(form) == Blank(form.name) \/ Blank(form.host) \/ Blank(form.user)

AddPortMalformed(form) == ~Blank(form.port) /\ ~IsU16Text(trim(form.port))

\* the form is open with the cursor on Tags, where Enter submits
AtAddSubmit ==
    /\ IsRunning
    /\ app.mode = "AddSession"
    /\ IsSome(app.add_form)
    /\ Unwrap(app.add_form).field = "Tags"

C11_InvalidAddKeepsForm ==
    (AtAddSubmit /\ (AddRequiredMissing(Unwrap(app.add_form))
                        \/ AddPortMalformed(Unwrap(app.add_form))))
    => LET out == handle_key(app, store, Key("Enter"), Env0)
       IN /\ out.ret = RetNone
          /\ out.calls = <<>>
          /\ out.store = store
          /\ out.app.sessions = app.sessions
          /\ out.app.mode = "AddSession"
          /\ out.app.add_form = app.add_form
          /\ out.app.status =
                 IF AddRequiredMissing(Unwrap(app.add_form)) THEN MsgRequired ELSE MsgPort

\* a submission with the port one above the 16-bit range has been refused
C11_Witness ==
    /\ AtAddSubmit
    /\ ~AddRequiredMissing(Unwrap(app.add_form))
    /\ Unwrap(app.add_form).port = <<"6", "5", "5", "3", "6">>
    /\ app.status = MsgPort
    /\ calls = <<>>

(***************************************************************************)
(* C12  When the store's add fails because the name already exists, the    *)
(* catalog is unchanged, the add form stays open with its contents, the    *)
(* mode stays AddSession, a status message is set, and the loop keeps      *)
(* running.                                                                *)
(***************************************************************************)
AddValid(form) == ~AddRequiredMissing(form) /\ ~AddPortMalformed(form)

C12_DuplicateAddKeepsForm ==
    (/\ AtAddSubmit
     /\ AddValid(Unwrap(app.add_form))
     /\ trim(Unwrap(app.add_form).name) \in Names(store))
    => LET out == handle_key(app, store, Key("Enter"), Env0)
           name == trim(Unwrap(app.add_form).name)
       IN /\ out.ret = RetNone
          /\ out.calls = <<Call("add", name, FALSE)>>
          /\ out.store = store
          /\ out.app.sessions = app.sessions
          /\ out.app.filtered_indices = app.filtered_indices
          /\ out.app.mode = "AddSession"
          /\ out.app.add_form = app.add_form
          /\ out.app.status = MsgAddFailed(name)

\* the store has just refused a second session named "a"
C12_Witness ==
    /\ AtAddSubmit
    /\ app.status = MsgAddFailed(<<"a">>)
    /\ calls = <<Call("add", <<"a">>, FALSE)>>
    /\ Unwrap(app.add_form).name = <<"a">>
    /\ Cardinality({i \in 1..Len(store) : store[i].name = <<"a">>}) = 1

(***************************************************************************)
(* C13  On an AddSession submission that passes validation and is accepted *)
(* by the store, the new session is appended at the end of the catalog,    *)
(* the filtered view is recomputed with the current query, the form is     *)
(* closed and the mode becomes Normal.                                     *)
(***************************************************************************)
\* the Session the form's texts stand for
SessionOfForm(form) ==
    LET port == trim(form.port)
        digits == IF port # <<>> /\ port[1] = "+" THEN Tail(port) ELSE port
    IN [name              |-> trim(form.name),
        host              |-> trim(form.host),
        user              |-> trim(form.user),
        port              |-> IF port = <<>> THEN 22 ELSE DecimalValue(digits),
        identity_file     |-> IF Blank(form.identity_file) THEN None
                              ELSE Some(trim(form.identity_file)),
        tags              |-> split_tags(form.tags),
        last_connected_at |-> None]

C13_AcceptedAddAppends ==
    (/\ AtAddSubmit
     /\ AddValid(Unwrap(app.add_form))
     /\ trim(Unwrap(app.add_form).name) \notin Names(store))
    => LET out == handle_key(app, store, Key("Enter"), Env0)
           new == SessionOfForm(Unwrap(app.add_form))
       IN /\ out.ret = RetNone
          /\ out.calls = <<Call("add", new.name, TRUE)>>
          /\ out.store = Append(store, new)
          /\ out.app.sessions = Append(app.sessions, new)
          /\ out.app.filter = app.filter
          /\ ViewIsFresh(out.app)
          /\ out.app.selected < Len(out.app.filtered_indices)
          /\ out.app.add_form = None
          /\ out.app.mode = "Normal"
          /\ out.app.status = MsgAdded(new.name)

\* " b " with port " 80 " and tags "t, ,s " was added under the query "b": it
\* stands last in the catalog, after "a" and "ab", and is in the view
C13_Witness ==
    /\ IsRunning
    /\ app.mode = "Normal"
    /\ app.add_form = None
    /\ app.status = MsgAdded(<<"b">>)
    /\ Len(app.sessions) = 3
    /\ app.sessions[3].name = <<"b">>
    /\ app.sessions[3].port = 80
    /\ app.sessions[3].tags = << <<"t">>, <<"s">> >>
    /\ app.filter = <<"b">>
    /\ app.filtered_indices = <<1, 2>>
    /\ store[3] = app.sessions[3]

(***************************************************************************)
(* C14  Submitting the Scp form with the trimmed Local path or the trimmed *)
(* Remote path empty spawns no transfer process, makes no store call, sets *)
(* a status message and leaves the form open in Scp mode.                  *)
(***************************************************************************)
ScpOutcomesAll == {"zero", "nonzero", "spawn_error"}

\* the form is open with the cursor on Recursive, where Enter submits
AtScpSubmit ==
    /\ IsRunning
    /\ app.mode = "Scp"
    /\ IsSome(app.scp_form)
    /\ Unwrap(app.scp_form).field = "Recursive"

ScpPathMissing(form) == Blank(form.local_path) \/ Blank(form.remote_path)

SubmitScp(scp) == handle_key(app, store, Key("Enter"), Env(None, scp, FALSE))

C14_EmptyPathsKeepScpForm ==
    (AtScpSubmit /\ ScpPathMissing(Unwrap(app.scp_form)))
    => \A scp \in ScpOutcomesAll :
           /\ SubmitScp(scp).ret = RetNone
           /\ SubmitScp(scp).calls = <<>>
           /\ SubmitScp(scp).store = store
           /\ SubmitScp(scp).app = [app EXCEPT !.status = MsgPaths]

\* a submission with a Local path of one space has been refused
C14_Witness ==
    /\ AtScpSubmit
    /\ Unwrap(app.scp_form).local_path = <<" ">>
    /\ ~Blank(Unwrap(app.scp_form).remote_path)
    /\ app.status = MsgPaths
    /\ calls = <<>>

(***************************************************************************)
(* C15  The argument vector built on Scp submission contains '-r' iff      *)
(* Recursive is set, '-i <identity>' iff the bound session has an identity *)
(* file, the port flag with the session's port, and ends with              *)
(* (local, user@host:remote) when Direction is to-remote and with          *)
(* (user@host:remote, local) when Direction is from-remote.                *)
(***************************************************************************)
\* the decimal text of a port: digits, no leading zero, the port's value
IsPortText(text, port) ==
    /\ text # <<>>
    /\ \A i \in 1..Len(text) : IsDigit(text[i])
    /\ Len(text) = 1 \/ text[1] # "0"
    /\ DecimalValue(text) = port

HasFlag(options, flag) == \E i \in 1..Len(options) : options[i] = flag

HasFlagWith(options, flag, value) ==
    \E i \in 1..(Len(options) - 1) : options[i] = flag /\ options[i + 1] = value

ArgvAsClaimed(argv, form) ==
    LET n == Len(argv)
        options == SubSeq(argv, 1, n - 2)
        session == form.session
        local_path == trim(form.local_path)
        remote_target ==
            session.user \o <<"@">> \o session.host \o <<":">> \o trim(form.remote_path)
    IN /\ n >= 4
       /\ HasFlag(options, <<"-", "r">>) <=> form.recursive
       /\ HasFlag(options, <<"-", "i">>) <=> IsSome(session.identity_file)
       /\ IsSome(session.identity_file)
              => HasFlagWith(options, <<"-", "i">>, Unwrap(session.identity_file))
       /\ \E i \in 1..(Len(options) - 1) :
              options[i] = <<"-", "P">> /\ IsPortText(options[i + 1], session.port)
       /\ Len(options) = 2 + (IF form.recursive THEN 1 ELSE 0)
                           + (IF IsSome(session.identity_file) THEN 2 ELSE 0)
       /\ form.direction = "To" => <<argv[n - 1], argv[n]>> = <<local_path, remote_target>>
       /\ form.direction = "From" => <<argv[n - 1], argv[n]>> = <<remote_target, local_path>>

StoreCalls(cs) == {i \in 1..Len(cs) : cs[i].op # "scp"}

Touched(st, name, timestamp) ==
    [i \in 1..Len(st) |->
        IF st[i].name = name THEN [st[i] EXCEPT !.last_connected_at = Some(timestamp)]
        ELSE st[i]]

C16_TouchIffZeroExit ==
    (AtScpSubmit /\ ~ScpPathMissing(Unwrap(app.scp_form)))
    => LET name == Unwrap(app.scp_form).session.name
           zero == SubmitScp("zero")
           nonzero == SubmitScp("nonzero")
           unspawned == SubmitScp("spawn_error")
       IN /\ zero.ret = RetNone
          /\ Len(zero.calls) = 2
          /\ zero.calls[1].op = "scp"
          /\ zero.calls[2] = Call("touch_last_connected", name, TRUE)
          /\ zero.store = Touched(store, name, Env0.now)
          /\ zero.store # store
          /\ zero.app.scp_form = None
          /\ zero.app.mode = "Normal"
          /\ zero.app.status = MsgScpDone(name)
          /\ nonzero.ret = RetNone
          /\ StoreCalls(nonzero.calls) = {}
          /\ nonzero.store = store
          /\ nonzero.app = [app EXCEPT !.status = MsgScpStatus]
          /\ StoreCalls(unspawned.calls) = {}
          /\ unspawned.store = store

\* a transfer for session "a" has ended with status zero
C16_Witness ==
    /\ IsRunning
    /\ app.mode = "Normal"
    /\ app.scp_form = None
    /\ app.status = MsgScpDone(<<"a">>)
    /\ Len(calls) = 2
    /\ calls[2] = Call("touch_last_connected", <<"a">>, TRUE)
    /\ \E i \in 1..Len(store) :
           store[i].name = <<"a">> /\ store[i].last_connected_at = Some(Env0.now)

(***************************************************************************)
(* C17  Across any sequence of draws, selection changes and monitor        *)
(* toggles, the external process snapshot is queried on a draw only if no  *)
(* refresh has ever occurred or at least the 1-second interval has elapsed *)
(* since the last refresh, so any two snapshot queries are at least one    *)
(* interval apart regardless of the redraw rate.                           *)
(***************************************************************************)
PsRun(cs) == \E i \in 1..Len(cs) : cs[i].op = "ps"

\* this step ran ps
Queried == PsRun(calls') /\ calls' # calls

\* A query is made by a draw, when none was made before or the last one is an
\* interval old, and it stamps the monitor with its time; nothing else moves
\* the stamp, so the stamp is always the time of the last query.
C17_QueriesAnIntervalApart ==
    [][/\ Queried =>
              /\ pc = "draw"
              /\ \/ app.monitor_last_update = None
                 \/ now - Unwrap(app.monitor_last_update) >= 1000
              /\ app'.monitor_last_update = Some(now)
       /\ (result'.kind = "running"
              /\ app'.monitor_last_update # app.monitor_last_update) => Queried]_vars

\* the second query was made at 1000 ms, and the draws at 1200, 1400, 1600 and
\* 1800 ms have made none
C17_Witness ==
    /\ IsRunning
    /\ pc = "poll"
    /\ now = 1800
    /\ app.monitor_enabled
    /\ app.filtered_indices # <<>>
    /\ app.monitor_last_update = Some(1000)
    /\ ~PsRun(calls)

(***************************************************************************)
(* C18  The process snapshot is queried and the monitor state is updated   *)
(* only during a draw in which monitor visibility is enabled and a session *)
(* is selected; with the monitor hidden or the filtered view empty the     *)
(* monitor state never changes.                                            *)
(***************************************************************************)
MonitorState(a) == <<a.monitor_entries, a.monitor_last_update>>

\* no key, of those the loop reads here or any other, moves the monitor state
KeysLeaveMonitor ==
    \A key \in KeyEvents : \A env \in AllEnvs(key) :
        LET out == handle_key(app, store, key, env)
        IN /\ ~PsRun(out.calls)
           /\ out.ret.kind = "continue" => MonitorState(out.app) = MonitorState(app)

C18_MonitorOnlyWhenShown ==
    [][/\ (result'.kind = "running"
              /\ (Queried \/ MonitorState(app') # MonitorState(app)))
          => /\ pc = "draw"
             /\ app.monitor_enabled
             /\ app.filtered_indices # <<>>
             /\ app.selected < Len(app.filtered_indices)
       /\ KeysLeaveMonitor]_vars

\* with the query "bb" the view is empty: the monitor, shown, still carries
\* the stamp of its first refresh after more than an interval of draws
C18_Witness ==
    /\ IsRunning
    /\ pc = "poll"
    /\ app.monitor_enabled
    /\ app.filtered_indices = <<>>
    /\ app.monitor_last_update = Some(0)
    /\ now >= 1200

(***************************************************************************)
(* C19  On every path out of run_tui after raw mode or the alternate       *)
(* screen has been entered (quit, Ctrl-C, connect selection, a fatal error *)
(* during terminal setup, a fatal error propagated from the loop, or a     *)
(* failure of one of the restore steps), raw mode is disabled and the      *)
(* alternate screen is left before control returns to the caller.          *)
(***************************************************************************)
Returned == pc \in {"returned", "done"}

C19_TerminalRestoredOnReturn == Returned => term = TermNormal

\* What the code does keep: whenever run_tui returns Ok, and whenever the
\* loop's own error is what it returns after three successful restore steps,
\* the terminal is back to normal.
C19_RestoredWhenOk == (Returned /\ result.kind = "exit") => term = TermNormal

\* run_tui has returned an error with raw mode still on and the alternate
\* screen still up
C19_Witness ==
    /\ pc = "returned"
    /\ result = RetErr
    /\ term = TermTui

(***************************************************************************)
(* C20  The connect (ssh) and transfer (scp) child processes are spawned   *)
(* only while the terminal is in its normal mode (raw mode off, alternate  *)
(* screen left); for the transfer the TUI mode is re-entered only after    *)
(* the child has exited, for connect the loop has already exited.          *)
(***************************************************************************)
ChildRun(cs) == \E i \in 1..Len(cs) : cs[i].op \in {"ssh", "scp"}

C20_ConnectOnNormalTerminal ==
    (\E i \in 1..Len(calls) : calls[i].op = "ssh")
        => term = TermNormal /\ pc = "done" /\ result.kind = "exit"

AtStaleConfirm ==
    /\ IsRunning
    /\ app.mode = "ConfirmDelete"
    /\ IsSome(app.delete_target)
    /\ app.delete_input = Unwrap(app.delete_target)
    /\ Unwrap(app.delete_target) \notin Names(store)

\* the form is ready to submit for a session the store file no longer holds
AtStaleTransfer ==
    /\ AtScpSubmit
    /\ ~ScpPathMissing(Unwrap(app.scp_form))
    /\ Unwrap(app.scp_form).session.name \notin Names(store)

NotFoundShown(out) ==
    /\ out.ret = RetNone
    /\ out.app.status # <<>>
    /\ out.app.status # app.status
    /\ out.app.mode = "Normal"
    /\ out.app.delete_target = None
    /\ out.app.scp_form = None

C21_NotFoundIsNonFatal ==
    /\ AtStaleConfirm => NotFoundShown(handle_key(app, store, Key("Enter"), Env0))
    /\ AtStaleTransfer => NotFoundShown(SubmitScp("zero"))

\* the loop has ended with the error of a remove that found nothing
C21_Witness ==
    /\ result = RetErr
    /\ app = Dropped
    /\ Len(calls) = 1
    /\ calls[1].op = "remove"
    /\ ~calls[1].ok
    /\ calls[1].name \notin Names(store)

\* likewise with the error of a touch that found nothing, after a transfer
C21_TouchWitness ==
    /\ result = RetErr
    /\ Len(calls) = 2
    /\ calls[1].op = "scp" /\ calls[1].ok
    /\ calls[2].op = "touch_last_connected" /\ ~calls[2].ok

(***************************************************************************)
(* C22  In every reachable state at most one of the auxiliary states       *)
(* {delete target, AddSessionForm, ScpForm} is live.                       *)
(***************************************************************************)
AuxLive(a) ==
    {aux \in {"delete_target", "add_form", "scp_form"} : IsSome(a[aux])}

C22_OneAuxiliaryLive == Cardinality(AuxLive(app)) <= 1

\* the scp form is open after a delete was confirmed: the delete target that
\* was live then is gone
C22_Witness ==
    /\ IsRunning
    /\ AuxLive(app) = {"scp_form"}
    /\ app.mode = "Scp"
    /\ Len(app.sessions) < Len(store_list(<<SessAB, SessA>>))

(***************************************************************************)
(* C23  A store operation that returns an error (add with a name that      *)
(* already exists, remove or touch_last_connected with a name that is not  *)
(* present) leaves the persisted session list unchanged.                   *)
(***************************************************************************)
\* the operation fails in the case named and then hands back the list as read
FailsUnchanged(r, named) ==
    /\ named => ~r.ok
    /\ ~r.ok => r.store = store

C23_FailedOperationKeepsList ==
    /\ \A session \in CliSessions :
           FailsUnchanged(store_add(store, session), session.name \in Names(store))
    /\ \A name \in CliNames :
           /\ FailsUnchanged(store_remove(store, name), name \notin Names(store))
           /\ FailsUnchanged(store_touch_last_connected(store, name, Env0.now),
                             name \notin Names(store))

\* an add has just been refused on a list that holds the name and another one
C23_Witness ==
    /\ Len(store) = 2
    /\ Len(calls) = 1
    /\ calls[1].op = "add"
    /\ ~calls[1].ok
    /\ calls[1].name \in Names(store)

(***************************************************************************)
(* C24  After any sequence of add, remove and touch_last_connected calls   *)
(* made by a single process on a store that starts empty, no two persisted *)
(* sessions have the same name.                                            *)
(***************************************************************************)
C24_NamesUnique ==
    \A i, j \in 1..Len(store) : store[i].name = store[j].name => i = j

\* three sessions are stored, the second touched, after a refused add
C24_Witness ==
    /\ Len(store) = 3
    /\ store[2].last_connected_at # None
    /\ store[1].last_connected_at = None
    /\ calls # <<>>
    /\ calls[Len(calls)].op = "add"
    /\ ~calls[Len(calls)].ok

(***************************************************************************)
(* C27  Running import with --force when an imported session has the same  *)
(* name as a session already in the store overrides the existing session   *)
(* with the imported one, and the command succeeds with every imported     *)
(* session present in the store.                                           *)
(***************************************************************************)
Stored(st) == {st[i] : i \in 1..Len(st)}

\* an input file of sessions with different names, one of them in the store
Conflicting(imported) ==
    /\ \A i, j \in 1..Len(imported) : imported[i].name = imported[j].name => i = j
    /\ \E i \in 1..Len(imported) : imported[i].name \in Names(store)

C27_ForceImportOverrides ==
    \A imported \in CliImports :
        Conflicting(imported)
        => LET r == import_sessions(store, imported, TRUE, "q")
           IN /\ r.ok
              /\ Stored(imported) \subseteq Stored(r.store)
              /\ Names(r.store) = Names(store) \cup Names(imported)
              /\ C24_NamesUnique

\* an import of two sessions has stored the first and failed on the second,
\* whose name the store still holds with the host it had before
C27_Witness ==
    /\ Len(calls) = 2
    /\ calls[1].op = "add" /\ calls[1].ok
    /\ calls[2].op = "add" /\ ~calls[2].ok
    /\ calls[1].name # calls[2].name
    /\ Len(store) = 2
    /\ store[1].name = calls[2].name
    /\ store[1].host = <<"h">>
    /\ store[2].name = calls[1].name

(***************************************************************************)
(* C25  For every session list and every query, filter_sessions returns a  *)
(* strictly increasing sequence of indices into the session list (original *)
(* order preserved, no duplicates, every index in range).                  *)
(***************************************************************************)
Found == filter_sessions(app.sessions, app.filter)

C25_IndicesStrictlyIncreasing ==
    /\ \A k \in 1..Len(Found) : Found[k] \in 0..(Len(app.sessions) - 1)
    /\ \A k \in 1..(Len(Found) - 1) : Found[k] < Found[k + 1]
    /\ IsRunning => app.filtered_indices = Found

\* a query that is not blank keeps the first and the last of three sessions
C25_Witness ==
    /\ ~Blank(app.filter)
    /\ Len(app.sessions) = 3
    /\ app.filtered_indices = <<0, 2>>
    /\ Found = <<0, 2>>

(***************************************************************************)
(* C26  filter_sessions returns index i iff the query is empty or          *)
(* whitespace-only, or the query is a case-insensitive substring of        *)
(* session i's name, host, user, identity-file path (when present) or at   *)
(* least one of its tags.                                                  *)
(***************************************************************************)
\* the letters of the catalog and of the query, capital and small
CasePairs == {<<"G", "g">>, <<"N", "n">>, <<"O", "o">>}

SameLetter(x, y) == x = y \/ <<x, y>> \in CasePairs \/ <<y, x>> \in CasePairs

SubstringIgnoringCase(query, text) ==
    \E start \in 0..(Len(text) - Len(query)) :
        \A k \in 1..Len(query) : SameLetter(text[start + k], query[k])

SearchedTexts(session) ==
    {session.name, session.host, session.user}
        \cup {session.identity_file[k] : k \in 1..Len(session.identity_file)}
        \cup {session.tags[k] : k \in 1..Len(session.tags)}

ShouldMatch(session, query) ==
    \/ Blank(query)
    \/ \E text \in SearchedTexts(session) : SubstringIgnoringCase(query, text)

InNormal == IsRunning /\ app.mode = "Normal"

NothingSelected == app.filtered_indices = <<>>

\* the app after 'dd', or after the second 'd' when the first is pending
AfterDeleteChord ==
    AfterKey(IF app.pending = Some("d") THEN app ELSE AfterKey(app, Key("d"), Env0),
             Key("d"), Env0)

\* the mode the key leads to is entered for the session under the cursor
EntersForSelected(a2) ==
    /\ a2.mode = "Scp"
           => (~NothingSelected /\ IsSome(a2.scp_form)
               /\ Unwrap(a2.scp_form).session.name = SelectedName(app))
    /\ a2.mode = "ConfirmDelete"
           => (~NothingSelected /\ a2.delete_target = Some(SelectedName(app)))

C28_EntryNeedsSelection ==
    InNormal
    => /\ \A key \in KeyEvents : \A env \in AllEnvs(key) :
              EntersForSelected(AfterKey(app, key, env))
       /\ NothingSelected
              => /\ AfterKey(app, Key("s"), Env0)
                        = [app EXCEPT !.status = MsgNoScp, !.pending = None]
                 /\ AfterDeleteChord
                        = [app EXCEPT !.status = MsgNoDelete, !.pending = None]

\* 's' has been refused on a catalog whose sessions the query all filters out
C28_Witness ==
    /\ InNormal
    /\ NothingSelected
    /\ app.sessions # <<>>
    /\ app.status = MsgNoScp
    /\ AuxLive(app) = {}

(***************************************************************************)
(* C29  AddSessionForm next/prev cycle the six fields Name, Host, User,    *)
(* Port, Identity, Tags with wraparound (next from Tags is Name, prev from *)
(* Name is Tags), ScpForm next/prev cycle Direction, Local, Remote,        *)
(* Recursive with wraparound, and in both forms prev is the inverse of     *)
(* next.                                                                   *)
(***************************************************************************)
AddOrder == <<"Name", "Host", "User", "Port", "Identity", "Tags">>
ScpOrder == <<"Direction", "Local", "Remote", "Recursive">>

Place(order, f) == CHOOSE k \in 1..Len(order) : order[k] = f
After(order, f) == order[(Place(order, f) % Len(order)) + 1]
Before(order, f) == order[((Place(order, f) + Len(order) - 2) % Len(order)) + 1]

\* the field the open form is on once the loop has handled these keys in turn
FieldAfter(form, keys) ==
    LET RECURSIVE press(_, _)
        press(a, ks) == IF ks = <<>> THEN a
                        ELSE press(AfterKey(a, Key(Head(ks)), Env0), Tail(ks))
    IN Unwrap(press(app, keys)[form]).field

Cycles(form, order) ==
    LET f == Unwrap(app[form]).field
    IN /\ f \in {order[k] : k \in 1..Len(order)}
       /\ FieldAfter(form, <<"Tab">>) = After(order, f)
       /\ FieldAfter(form, <<"BackTab">>) = Before(order, f)
       /\ FieldAfter(form, <<"Tab", "BackTab">>) = f
       /\ FieldAfter(form, <<"BackTab", "Tab">>) = f

C29_FieldsCycle ==
    /\ (IsRunning /\ app.mode = "AddSession") => Cycles("add_form", AddOrder)
    /\ (IsRunning /\ app.mode = "Scp") => Cycles("scp_form", ScpOrder)
    /\ \A k \in 1..Len(AddOrder) :
           /\ AddField_next(AddOrder[k]) = After(AddOrder, AddOrder[k])
           /\ AddField_prev(AddField_next(AddOrder[k])) = AddOrder[k]
           /\ AddField_next(AddField_prev(AddOrder[k])) = AddOrder[k]
    /\ \A k \in 1..Len(ScpOrder) :
           /\ ScpField_next(ScpOrder[k]) = After(ScpOrder, ScpOrder[k])
           /\ ScpField_prev(ScpField_next(ScpOrder[k])) = ScpOrder[k]
           /\ ScpField_next(ScpField_prev(ScpOrder[k])) = ScpOrder[k]

\* the add form stands on Tags, from where next wraps to Name
C29_Witness ==
    /\ IsRunning
    /\ app.mode = "AddSession"
    /\ Unwrap(app.add_form).field = "Tags"
    /\ FieldAfter("add_form", <<"Tab">>) = "Name"
    /\ FieldAfter("add_form", <<"Tab", "BackTab">>) = "Tags"

\* the scp form stands on Direction, from where prev wraps to Recursive
C29_ScpWitness ==
    /\ IsRunning
    /\ app.mode = "Scp"
    /\ Unwrap(app.scp_form).field = "Direction"
    /\ FieldAfter("scp_form", <<"BackTab">>) = "Recursive"
    /\ FieldAfter("scp_form", <<"BackTab", "BackTab", "BackTab">>) = "Local"

(***************************************************************************)
(* C30  The pending-key marker is set only while the mode is Normal: every *)
(* transition out of Normal (to Search, ConfirmDelete, AddSession or Scp)  *)
(* leaves the marker cleared, so no chord started before a mode change can *)
(* complete after returning to Normal.                                     *)
(***************************************************************************)
C30_MarkerOnlyInNormal ==
    /\ IsSome(app.pending) => app.mode = "Normal"
    /\ (IsRunning /\ app.mode # "Normal")
           => \A key \in KeyEvents : \A env \in AllEnvs(key) :
                  AfterKey(app, key, env).pending = None
    /\ InNormal
           => \A key \in KeyEvents : \A env \in AllEnvs(key) :
                  AfterKey(app, key, env).mode # "Normal"
                      => AfterKey(app, key, env).pending = None

\* with 'd' pending, a key takes the loop out of Normal and clears the marker
C30_Witness ==
    /\ InNormal
    /\ app.pending = Some("d")
    /\ AfterKey(app, Key("/"), Env0).mode = "Search"
    /\ AfterKey(app, Key("/"), Env0).pending = None
    /\ AfterKey(app, Key("s"), Env0).mode = "Scp"
    /\ AfterKey(app, Key("s"), Env0).pending = None

(***************************************************************************)
(* C31  Each dispatched key event causes at most one store call, and store *)
(* calls happen only for committed mutations: remove on a confirmed        *)
(* delete, add on a valid add submission, touch_last_connected after a     *)
(* successful transfer; no other key in any mode calls the store.          *)
(***************************************************************************)
\* the store call is one the key, the mode and the typed text commit to
Committed(call, key, env) ==
    \/ /\ call.op = "remove"
       /\ app.mode = "ConfirmDelete"
       /\ key = Key("Enter")
       /\ app.delete_target = Some(app.delete_input)
       /\ call.name = app.delete_input
    \/ /\ call.op = "add"
       /\ AtAddSubmit
       /\ key = Key("Enter")
       /\ AddValid(Unwrap(app.add_form))
       /\ call.name = trim(Unwrap(app.add_form).name)
    \/ /\ call.op = "touch_last_connected"
       /\ AtScpSubmit
       /\ key = Key("Enter")
       /\ ~ScpPathMissing(Unwrap(app.scp_form))
       /\ env.scp = "zero"
       /\ call.name = Unwrap(app.scp_form).session.name

C31_StoreCallsOnlyWhenCommitted ==
    IsRunning
    => \A key \in KeyEvents : \A env \in AllEnvs(key) :
           \A out \in {handle_key(app, store, key, env)} :
              /\ Cardinality(StoreCalls(out.calls)) <= 1
              /\ \A i \in StoreCalls(out.calls) : Committed(out.calls[i], key, env)
              /\ out.store # store => StoreCalls(out.calls) # {}

\* a confirmed delete and a valid add have each made their one call: the
\* session added last is stored, the one deleted before is not
C31_Witness ==
    /\ InNormal
    /\ Cardinality(StoreCalls(calls)) = 1
    /\ calls[1].op = "add" /\ calls[1].ok
    /\ calls[1].name \in Names(store)
    /\ SessA.name \notin Names(store)

(***************************************************************************)
(* C32  In AddSession mode Enter triggers submission (and so any store     *)
(* add) only when the field cursor is on Tags and otherwise only advances  *)
(* the cursor; in Scp mode Enter triggers submission (and so any process   *)
(* spawn) only when the cursor is on Recursive and otherwise only advances *)
(* the cursor.                                                             *)
(***************************************************************************)
\* Enter has moved the cursor of the form to the next field, and nothing else
OnlyAdvanced(out, form, order) ==
    /\ out.app = [app EXCEPT ![form][1].field = After(order, Unwrap(app[form]).field)]
    /\ out.store = store
    /\ out.ret = RetNone
    /\ out.calls = <<>>

\* what a submission leaves: an error, or the status of one of its outcomes
Submitted(out, outcomes) == out.ret = RetErr \/ out.app.status \in outcomes

C32_EnterSubmitsOnLastField ==
    /\ (IsRunning /\ app.mode = "AddSession")
           => \A out \in {handle_key(app, store, Key("Enter"), Env0)} :
                  IF Unwrap(app.add_form).field = "Tags"
                  THEN Submitted(out, {MsgRequired, MsgPort,
                                       MsgAddFailed(trim(Unwrap(app.add_form).name)),
                                       MsgAdded(trim(Unwrap(app.add_form).name))})
                  ELSE OnlyAdvanced(out, "add_form", AddOrder)
    /\ (IsRunning /\ app.mode = "Scp")
           => \A scp \in ScpOutcomesAll : \A out \in {SubmitScp(scp)} :
                  IF Unwrap(app.scp_form).field = "Recursive"
                  THEN Submitted(out, {MsgPaths, MsgScpStatus,
                                       MsgScpDone(Unwrap(app.scp_form).session.name)})
                  ELSE OnlyAdvanced(out, "scp_form", ScpOrder)

\* a complete add form with the cursor on Identity: Enter moves it to Tags,
\* and Enter there adds the session
C32_Witness ==
    /\ IsRunning
    /\ app.mode = "AddSession"
    /\ Unwrap(app.add_form).field = "Identity"
    /\ AddValid(Unwrap(app.add_form))
    /\ trim(Unwrap(app.add_form).name) \notin Names(store)
    /\ handle_key(app, store, Key("Enter"), Env0).calls = <<>>
    /\ handle_key(AfterKey(app, Key("Enter"), Env0), store, Key("Enter"), Env0).calls
           = <<Call("add", trim(Unwrap(app.add_form).name), TRUE)>>

\* a complete scp form with the cursor on Remote: Enter moves it to Recursive
C32_ScpWitness ==
    /\ IsRunning
    /\ app.mode = "Scp"
    /\ Unwrap(app.scp_form).field = "Remote"
    /\ ~ScpPathMissing(Unwrap(app.scp_form))
    /\ SubmitScp("zero").calls = <<>>
    /\ Unwrap(SubmitScp("zero").app.scp_form).field = "Recursive"

(***************************************************************************)
(* C33  After every key event handled by the loop without a store error,   *)
(* with the store accessed only by this process, the set of session names  *)
(* in the in-memory catalog equals the set of session names persisted in   *)
(* the store.                                                              *)
(***************************************************************************)
C33_CatalogMirrorsStore ==
    /\ IsRunning => Names(app.sessions) = Names(store)
    /\ IsRunning => Len(app.sessions) = Len(store)

\* after a delete and an add the catalog and the store hold the same names,
\* which are not the names the loop started with
C33_Witness ==
    /\ IsRunning
    /\ Names(app.sessions) = Names(store)
    /\ SessA.name \notin Names(store)
    /\ Names(store) \ {SessA.name, SessAB.name} # {}

(***************************************************************************)
(* C34  Whenever the monitor panel is drawn for a selected session, the    *)
(* stored list of active PIDs was derived from a snapshot filtered by that *)
(* currently selected session's host, also right after the selection moved *)
(* to a session with a different host.                                     *)
(***************************************************************************)
\* the loop is between a draw and the next key: the panel on screen shows
\* the selected session's host above the stored list of PIDs
PanelDrawn ==
    /\ IsRunning
    /\ pc = "poll"
    /\ app.monitor_enabled
    /\ IsSome(selected_session(app))

ListIsOfHost(host) ==
    \E ps \in PsOutputs : app.monitor_entries = fetch_ssh_pids(host, ps)

C34_ListIsOfSelectedHost ==
    PanelDrawn => ListIsOfHost(Unwrap(selected_session(app)).host)

\* the panel is drawn for the session on host "hh" with the PID of the
\* connection to host "a", found before the selection moved
C34_Witness ==
    /\ PanelDrawn
    /\ Unwrap(selected_session(app)).host = SessAB.host
    /\ app.monitor_entries = <<7>>
    /\ ~PsRun(calls)

\* what holds: a draw that runs ps stores the list of the selected host
C34_FreshListIsOfSelectedHost ==
    (PanelDrawn /\ PsRun(calls)) => ListIsOfHost(Unwrap(selected_session(app)).host)

(***************************************************************************)
(* C35  In every reachable state the list of filtered indices is the       *)
(* result of filter_sessions on the current catalog and the current query, *)
(* and every index in it is below the length of the catalog.               *)
(***************************************************************************)
IndicesInCatalog(a) ==
    \A i \in 1..Len(a.filtered_indices) :
        a.filtered_indices[i] >= 0 /\ a.filtered_indices[i] < Len(a.sessions)

C35_ViewIsFilterOfCatalog ==
    /\ ViewIsFresh(app)
    /\ IndicesInCatalog(app)

\* a query is set that hides part of a catalog that has changed since start
C35_Witness ==
    /\ IsRunning
    /\ app.filter # <<>>
    /\ Len(app.sessions) # Len(store_list(CHOOSE st \in InitStores : TRUE))
    /\ Len(app.filtered_indices) < Len(app.sessions)
    /\ ViewIsFresh(app)

(***************************************************************************)
(* C36  Mode and payload agree in every reachable state: the add form is   *)
(* present exactly when the mode is AddSession, the scp form exactly when  *)
(* the mode is Scp, and the delete target exactly when the mode is         *)
(* ConfirmDelete.                                                          *)
(***************************************************************************)
C36_ModeAndPayloadAgree ==
    /\ IsSome(app.add_form) <=> app.mode = "AddSession"
    /\ IsSome(app.scp_form) <=> app.mode = "Scp"
    /\ IsSome(app.delete_target) <=> app.mode = "ConfirmDelete"

\* an auxiliary mode has been entered, left and another one entered
C36_Witness ==
    /\ IsRunning
    /\ app.mode = "Scp"
    /\ IsSome(app.scp_form)
    /\ app.add_form = None
    /\ app.delete_target = None
    /\ Len(app.sessions) # Len(store_list(CHOOSE st \in InitStores : TRUE))

(***************************************************************************)
(* C37  While the mode is ConfirmDelete the delete target is the name of a *)
(* session in the catalog and equals the name of the currently selected    *)
(* session; no key handled in ConfirmDelete changes the selection, the     *)
(* query or the catalog before Enter or Escape.                            *)
(***************************************************************************)
Confirming == app.mode = "ConfirmDelete"

TargetIsSelected ==
    /\ IsSome(app.delete_target)
    /\ Unwrap(app.delete_target) \in Names(app.sessions)
    /\ IsSome(selected_session(app))
    /\ Unwrap(app.delete_target) = Unwrap(selected_session(app)).name

KeepsSelection(out) ==
    /\ out.app.selected = app.selected
    /\ out.app.filter = app.filter
    /\ out.app.filtered_indices = app.filtered_indices
    /\ out.app.sessions = app.sessions

C37_TargetIsSelectedSession ==
    Confirming =>
        /\ TargetIsSelected
        /\ IsRunning =>
               \A key \in KeyEvents \ {Key("Enter"), Key("Esc")} :
                   \A env \in AllEnvs(key) :
                       \A out \in {handle_key(app, store, key, env)} :
                           KeepsSelection(out)

\* a confirmation is being typed for a session picked under a query, at a
\* position of the view that differs from its position in the catalog
C37_Witness ==
    /\ IsRunning
    /\ Confirming
    /\ app.filter # <<>>
    /\ app.delete_input # <<>>
    /\ app.filtered_indices[app.selected + 1] # app.selected
    /\ TargetIsSelected

(***************************************************************************)
(* C38  After a transfer started from the Scp form exits with status zero, *)
(* the catalog's copy of the bound session carries the same last-connected *)
(* timestamp as the store, so that the monitor panel's "Last connected"    *)
(* line reflects that transfer.                                            *)
(***************************************************************************)
LastConnected(sessions, name) ==
    {sessions[i].last_connected_at : i \in {j \in 1..Len(sessions) : sessions[j].name = name}}

C38_CatalogCarriesTransferTime ==
    (AtScpSubmit /\ ~ScpPathMissing(Unwrap(app.scp_form)))
    => \A out \in {SubmitScp("zero")} :
           out.ret = RetNone
           => LastConnected(out.app.sessions, Unwrap(app.scp_form).session.name)
                  = LastConnected(out.store, Unwrap(app.scp_form).session.name)

\* a transfer for session "a" has ended with status zero: the store holds
\* its time, the catalog's copy still says the session was never connected
C38_Witness ==
    /\ IsRunning
    /\ app.mode = "Normal"
    /\ app.status = MsgScpDone(<<"a">>)
    /\ Len(calls) = 2
    /\ calls[2] = Call("touch_last_connected", <<"a">>, TRUE)
    /\ LastConnected(store, <<"a">>) = {Some(Env0.now)}
    /\ LastConnected(app.sessions, <<"a">>) = {None}

\* what holds: the transfer leaves the catalog as it was
C38_TransferKeepsCatalog ==
    (AtScpSubmit /\ ~ScpPathMissing(Unwrap(app.scp_form)))
    => \A out \in {SubmitScp("zero")} : out.app.sessions = app.sessions

(***************************************************************************)
(* C39  Enter in Normal mode exits the loop returning exactly the session  *)
(* at the cursor of the current filtered view, catalog[filtered[cursor]];  *)
(* when the filtered view is empty it exits the loop with no selection,    *)
(* the same outcome as the quit key.                                       *)
(***************************************************************************)
AtCursor == app.sessions[app.filtered_indices[app.selected + 1] + 1]

C39_EnterReturnsSessionAtCursor ==
    InNormal =>
        \A out \in {handle_key(app, store, Key("Enter"), Env0)} :
            /\ out.ret.kind = "exit"
            /\ out.store = store
            /\ StoreCalls(out.calls) = {}
            /\ ~NothingSelected => out.ret.selection = Some(AtCursor)
            /\ NothingSelected =>
                   /\ out.ret.selection = None
                   /\ out.ret = handle_key(app, store, Key("q"), Env0).ret

\* the loop has ended by Enter on the second session of the catalog
C39_Witness ==
    /\ result.kind = "exit"
    /\ IsSome(result.selection)
    /\ Unwrap(result.selection).name = SessAB.name

\* Normal mode under a query that matches nothing: Enter leaves with no
\* selection
C39_EmptyWitness ==
    /\ InNormal
    /\ NothingSelected
    /\ app.filter # <<>>
    /\ handle_key(app, store, Key("Enter"), Env0).ret = RetExit(None)

(***************************************************************************)
(* store/mod.rs run by two processes on one file.  add, remove and         *)
(* touch_last_connected each begin with self.load() and, when they         *)
(* succeed, end with self.save(&sessions); the file is not locked, so the  *)
(* other process may run between the two.  Here store is the file, app[p]  *)
(* the Vec that process p has loaded, calls[p] the operation p runs (and,  *)
(* once it has returned, whether it returned Ok), pc[p] where p stands,    *)
(* and result the names that the operations which returned Ok have added   *)
(* (present) and removed (absent), latest return last.                     *)
(***************************************************************************)
Procs == {1, 2}

ConcNames == {<<"a">>, <<"b">>}

ConcSession(name) == Session(name, <<"h">>, <<"u">>, None, <<>>)

StoreOps == {"add", "remove", "touch_last_connected"}

InitConc ==
    /\ store = <<>>
    /\ app = [p \in Procs |-> <<>>]
    /\ calls = [p \in Procs |-> <<>>]
    /\ pc = [p \in Procs |-> "idle"]
    /\ result = [present |-> {}, absent |-> {}]
    /\ term = TermNormal
    /\ now = 0

\* `let mut sessions = self.load()?;` at the head of an operation
LoadStep(p) ==
    /\ pc[p] = "idle"
    /\ \E op \in StoreOps, name \in ConcNames :
          calls' = [calls EXCEPT ![p] = <<Call(op, name, TRUE)>>]
    /\ app' = [app EXCEPT ![p] = store]
    /\ pc' = [pc EXCEPT ![p] = "loaded"]
    /\ UNCHANGED <<store, result, term, now>>

\* the operation on the Vec it loaded
Applied(op, name, sessions) ==
    IF op = "add" THEN store_add(sessions, ConcSession(name))
    ELSE IF op = "remove" THEN store_remove(sessions, name)
    ELSE store_touch_last_connected(sessions, name, Env0.now)

\* what the caller of an operation that returned Ok may rely on
Promised(res, op, name) ==
    IF op = "add"
    THEN [present |-> res.present \cup {name}, absent |-> res.absent \ {name}]
    ELSE IF op = "remove"
    THEN [present |-> res.present \ {name}, absent |-> res.absent \cup {name}]
    ELSE res

\* the rest of the operation: bail!, or self.save(&sessions) and Ok(())
SaveStep(p) ==
    /\ pc[p] = "loaded"
    /\ \E call \in {calls[p][1]} :
          \E r \in {Applied(call.op, call.name, app[p])} :
              /\ store' = IF r.ok THEN r.store ELSE store
              /\ result' = IF r.ok THEN Promised(result, call.op, call.name) ELSE result
              /\ calls' = [calls EXCEPT ![p] = <<Call(call.op, call.name, r.ok)>>]
    /\ app' = [app EXCEPT ![p] = <<>>]
    /\ pc' = [pc EXCEPT ![p] = "idle"]
    /\ UNCHANGED <<term, now>>

NextConc ==
    \/ \E p \in Procs : LoadStep(p)
    \/ \E p \in Procs : SaveStep(p)

SpecConc == InitConc /\ [][NextConc]_vars

(***************************************************************************)
(* C40  When two processes operate on the same store file concurrently,    *)
(* every operation that returned success is reflected in the store         *)
(* afterwards: no successful add is lost and no successfully removed       *)
(* session reappears.                                                      *)
(***************************************************************************)
Quiet == \A p \in Procs : pc[p] = "idle"

C40_SuccessfulOperationsKept ==
    Quiet =>
        /\ result.present \subseteq Names(store)
        /\ result.absent \cap Names(store) = {}

\* both processes have returned Ok from an add; the file holds one of the
\* two sessions
C40_Witness ==
    /\ Quiet
    /\ \A p \in Procs : calls[p] # <<>> /\ calls[p][1].op = "add" /\ calls[p][1].ok
    /\ calls[1][1].name # calls[2][1].name
    /\ result.present = ConcNames
    /\ Len(store) = 1

\* a remove has returned Ok and the session is in the file again, written
\* back by a touch that had loaded the file before the remove
C40_ReappearWitness ==
    /\ Quiet
    /\ \E p \in Procs, q \in Procs :
          /\ calls[p] = <<Call("remove", <<"a">>, TRUE)>>
          /\ calls[q] = <<Call("touch_last_connected", <<"a">>, TRUE)>>
    /\ <<"a">> \in result.absent
    /\ <<"a">> \in Names(store)

\* what holds: an operation that finds the file as it loaded it keeps what
\* the earlier ones promised
C40_UninterruptedOperationsKept ==
    [][\A p \in Procs :
          (SaveStep(p) /\ app[p] = store
             /\ result.present \subseteq Names(store)
             /\ result.absent \cap Names(store) = {})
          => (result.present' \subseteq Names(store')
                /\ result.absent' \cap Names(store') = {})]_vars

====
